---- MODULE Spec2Model ----
(***************************************************************************)
(* Reactive LED effect engine of simtools: a tree of LED effects (groups,  *)
(* flag / redline blink effects, RPM gradient, RPM segments) is built from *)
(* profile containers and then driven, one telemetry moment at a time, by  *)
(* update(), read by leds() and switched off by disable().                 *)
(*                                                                         *)
(* Time is counted in clock ticks: an Instant is a natural number, a       *)
(* Duration a number of ticks.  RPM values are integers.                   *)
(***************************************************************************)
EXTENDS Integers, Sequences, FiniteSets, TLC

VARIABLES
    profile,    \* the led_containers of the profile the effect tree is built from
    effect,     \* the effect tree that is driven (an EffectGroup, or an effect driven directly)
    source,     \* the telemetry source: which getters of a moment it can fill in
    now,        \* the wall clock (Instant::now() at the last clock read)
    sim_state,  \* the moment handed to the last update()
    clock,      \* the clock readings of the last update(), one per node in call order
    op,         \* the last operation: "new", "update", "disable" or "sleep"; in the
                \* run loop also "next_sim_state", "apply" and "failed"; while the
                \* profile is loaded "load", "deserialize" and "failed"
    applied,    \* the LedGroups handed to the device since the last update()
    buffer,     \* the command buffer of the device: the colour bytes of each of
                \* its LEDs
    document,   \* the led_containers array of the profile document that is
                \* deserialized into the profile (empty where the profile is
                \* given as it is after the load)
    prev        \* the effect tree as it was before the last operation

vars == <<profile, effect, source, now, sim_state, clock, op, applied, buffer,
          document, prev>>

----------------------------------------------------------------------------
(* Bounds of the model *)

\* The clock stops advancing at MaxTime.
MaxTime == 5

\* The clock may advance by at most MaxSkew ticks between the first and the
\* last clock read of one update() of the tree.
MaxSkew == 1

\* Width of usize in bits (positions saturate at 2^UsizeBits - 1).
UsizeBits == 6

USIZE_MAX == 2 ^ UsizeBits - 1

----------------------------------------------------------------------------
(* Option<T>, small helpers *)

None == [some |-> FALSE]

Some(v) == [some |-> TRUE, value |-> v]

Min(a, b) == IF a <= b THEN a ELSE b

Abs(a) == IF a < 0 THEN 0 - a ELSE a

\* NonZeroUsize::saturating_add, had the addition wrapped around
saturating_add_Wrapping(a, b) == (a + b) % (USIZE_MAX + 1)

\* NonZeroUsize::saturating_add
saturating_add(a, b) == IF a >= USIZE_MAX - b THEN USIZE_MAX ELSE a + b

\* The sum of f[1] .. f[n] for a sequence of numbers
RECURSIVE SumTo(_, _)
SumTo(f, n) == IF n = 0 THEN 0 ELSE f[n] + SumTo(f, n - 1)

----------------------------------------------------------------------------
(* Telemetry: a moment and the values MomentExt computes from it *)

RacingFlags(w, y, b) == [white |-> w, yellow |-> y, blue |-> b]

Moment(flags, rpm, max_rpm, gear, starter) ==
    [flags |-> flags,
     vehicle_engine_rotation_speed |-> rpm,
     vehicle_max_engine_rotation_speed |-> max_rpm,
     vehicle_gear |-> gear,
     is_starter_on |-> starter]

\* The error margin of the redline, in percent of the maximum RPM.
ERROR_MARGIN_PERCENTAGE == 2

\* redline_reached, had the margin itself counted as the redline
redline_reached_Inclusive(m) ==
    IF ~m.vehicle_engine_rotation_speed.some THEN FALSE
    ELSE IF ~m.vehicle_max_engine_rotation_speed.some THEN FALSE
    ELSE LET rpm == m.vehicle_engine_rotation_speed.value
             max_rpm == m.vehicle_max_engine_rotation_speed.value
         IN  Abs(max_rpm - rpm) * 100 <= ERROR_MARGIN_PERCENTAGE * max_rpm

redline_reached(m) ==
    IF ~m.vehicle_engine_rotation_speed.some THEN FALSE
    ELSE IF ~m.vehicle_max_engine_rotation_speed.some THEN FALSE
    ELSE LET rpm == m.vehicle_engine_rotation_speed.value
             max_rpm == m.vehicle_max_engine_rotation_speed.value
         IN  Abs(max_rpm - rpm) * 100 < ERROR_MARGIN_PERCENTAGE * max_rpm

is_engine_running(m) ==
    IF ~m.is_starter_on.some THEN FALSE
    ELSE IF ~m.vehicle_engine_rotation_speed.some THEN FALSE
    ELSE ~m.is_starter_on.value /\ m.vehicle_engine_rotation_speed.value > 0

\* The RPM as a percentage of the maximum RPM (0 without a maximum RPM).
rpm_percentage(m) ==
    IF m.vehicle_engine_rotation_speed.some
       /\ m.vehicle_max_engine_rotation_speed.some
       /\ m.vehicle_max_engine_rotation_speed.value > 0
    THEN (m.vehicle_engine_rotation_speed.value * 100)
             \div m.vehicle_max_engine_rotation_speed.value
    ELSE 0

\* The RPM of the redline: the maximum RPM of the car (0 when unknown).
redline_rpm(m) ==
    IF m.vehicle_max_engine_rotation_speed.some
    THEN m.vehicle_max_engine_rotation_speed.value
    ELSE 0

----------------------------------------------------------------------------
(* LedConfiguration, LedGroup *)

Off == [tag |-> "Off"]

On(color) == [tag |-> "On", color |-> color]

\* A named colour of the profile
Color(name) == [name |-> name]

LedGroup_new(start_position, led_count) ==
    [start_position |-> start_position, leds |-> [i \in 1..led_count |-> Off]]

LedGroup_with_color(color, start_position, led_count) ==
    [start_position |-> start_position, leds |-> [i \in 1..led_count |-> On(color)]]

----------------------------------------------------------------------------
(* BlinkState, BlinkTimings, BlinkConfiguration *)

NotBlinking == [tag |-> "NotBlinking"]

LedsTurnedOff(t) == [tag |-> "LedsTurnedOff", state_change |-> t]

LedsTurnedOn(t) == [tag |-> "LedsTurnedOn", state_change |-> t]

Single(timeout) == [tag |-> "Single", timeout |-> timeout]

Double(on, off) == [tag |-> "Double", on_timeout |-> on, off_timeout |-> off]

on_timeout(timings) ==
    IF timings.tag = "Single" THEN timings.timeout ELSE timings.on_timeout

off_timeout(timings) ==
    IF timings.tag = "Single" THEN timings.timeout ELSE timings.off_timeout

Disabled == [tag |-> "Disabled"]

Enabled(state, timings) == [tag |-> "Enabled", state |-> state, timings |-> timings]

BlinkConfiguration_disable(cfg) ==
    IF cfg.tag = "Enabled" THEN [cfg EXCEPT !.state = NotBlinking] ELSE cfg

\* BlinkConfiguration::update, had it started blinking in the off phase
BlinkConfiguration_update_StartsOff(cfg, should_blink, t) ==
    IF cfg.tag = "Enabled" THEN
        IF should_blink THEN
            CASE cfg.state.tag = "NotBlinking" ->
                    [cfg EXCEPT !.state = LedsTurnedOff(t)]
              [] cfg.state.tag = "LedsTurnedOff" ->
                    IF t - cfg.state.state_change >= off_timeout(cfg.timings)
                    THEN [cfg EXCEPT !.state = LedsTurnedOn(t)]
                    ELSE cfg
              [] cfg.state.tag = "LedsTurnedOn" ->
                    IF t - cfg.state.state_change > on_timeout(cfg.timings)
                    THEN [cfg EXCEPT !.state = LedsTurnedOff(t)]
                    ELSE cfg
        ELSE [cfg EXCEPT !.state = NotBlinking]
    ELSE cfg

\* BlinkConfiguration::update, had it let a running on phase finish after
\* the signal has dropped
BlinkConfiguration_update_Trailing(cfg, should_blink, t) ==
    IF cfg.tag = "Enabled" THEN
        IF should_blink THEN
            CASE cfg.state.tag = "NotBlinking" ->
                    [cfg EXCEPT !.state = LedsTurnedOn(t)]
              [] cfg.state.tag = "LedsTurnedOff" ->
                    IF t - cfg.state.state_change >= off_timeout(cfg.timings)
                    THEN [cfg EXCEPT !.state = LedsTurnedOn(t)]
                    ELSE cfg
              [] cfg.state.tag = "LedsTurnedOn" ->
                    IF t - cfg.state.state_change > on_timeout(cfg.timings)
                    THEN [cfg EXCEPT !.state = LedsTurnedOff(t)]
                    ELSE cfg
        ELSE IF cfg.state.tag = "LedsTurnedOn"
                /\ t - cfg.state.state_change <= on_timeout(cfg.timings)
             THEN cfg
             ELSE [cfg EXCEPT !.state = NotBlinking]
    ELSE cfg

\* BlinkConfiguration::update, had every update() within the on phase
\* started the phase anew
BlinkConfiguration_update_RestartsOnPhase(cfg, should_blink, t) ==
    IF cfg.tag = "Enabled" THEN
        IF should_blink THEN
            CASE cfg.state.tag = "NotBlinking" ->
                    [cfg EXCEPT !.state = LedsTurnedOn(t)]
              [] cfg.state.tag = "LedsTurnedOff" ->
                    IF t - cfg.state.state_change >= off_timeout(cfg.timings)
                    THEN [cfg EXCEPT !.state = LedsTurnedOn(t)]
                    ELSE cfg
              [] cfg.state.tag = "LedsTurnedOn" ->
                    IF t - cfg.state.state_change > on_timeout(cfg.timings)
                    THEN [cfg EXCEPT !.state = LedsTurnedOff(t)]
                    ELSE [cfg EXCEPT !.state = LedsTurnedOn(t)]
        ELSE [cfg EXCEPT !.state = NotBlinking]
    ELSE cfg

\* BlinkConfiguration::update with the clock read at t
BlinkConfiguration_update(cfg, should_blink, t) ==
    IF cfg.tag = "Enabled" THEN
        IF should_blink THEN
            CASE cfg.state.tag = "NotBlinking" ->
                    [cfg EXCEPT !.state = LedsTurnedOn(t)]
              [] cfg.state.tag = "LedsTurnedOff" ->
                    IF t - cfg.state.state_change >= off_timeout(cfg.timings)
                    THEN [cfg EXCEPT !.state = LedsTurnedOn(t)]
                    ELSE cfg
              [] cfg.state.tag = "LedsTurnedOn" ->
                    IF t - cfg.state.state_change > on_timeout(cfg.timings)
                    THEN [cfg EXCEPT !.state = LedsTurnedOff(t)]
                    ELSE cfg
        ELSE [cfg EXCEPT !.state = NotBlinking]
    ELSE cfg

----------------------------------------------------------------------------
(* BlinkEffect: the flag and redline blink effects *)

\* BlinkEffect::new_helper, had it swapped the two delays of the dual timing
BlinkEffect_new_helper_SwappedDelays(condition, container, start_position) ==
    [kind |-> "Blink",
     condition |-> condition,
     container |-> container,
     enabled |-> FALSE,
     on_leds |-> LedGroup_with_color(container.color, start_position,
                                     container.led_count),
     off_leds |-> LedGroup_new(start_position, container.led_count),
     blink_configuration |->
         IF container.blink_enabled
         THEN Enabled(NotBlinking,
                      IF container.dual_blink_timing_enabled
                      THEN Double(container.off_delay, container.on_delay)
                      ELSE Single(container.blink_delay))
         ELSE Disabled]

\* BlinkEffect::new_helper; condition is "White", "Yellow", "Blue" or "RedLine"
BlinkEffect_new_helper(condition, container, start_position) ==
    LET led_count == container.led_count
        blink_configuration ==
            IF container.blink_enabled THEN
                LET timings ==
                        IF container.dual_blink_timing_enabled
                        THEN Double(container.on_delay, container.off_delay)
                        ELSE Single(container.blink_delay)
                IN  Enabled(NotBlinking, timings)
            ELSE Disabled
    IN  [kind |-> "Blink",
         condition |-> condition,
         container |-> container,
         enabled |-> FALSE,
         on_leds |-> LedGroup_with_color(container.color, start_position, led_count),
         off_leds |-> LedGroup_new(start_position, led_count),
         blink_configuration |-> blink_configuration]

BlinkEffect_flag(flag_color, container, start_position) ==
    BlinkEffect_new_helper(flag_color, container, start_position)

BlinkEffect_redline(container, start_position) ==
    BlinkEffect_new_helper("RedLine", container, start_position)

\* BlinkEffect::update, had a flag effect reacted to any of the three flags
BlinkEffect_update_AnyFlag(e, m, t) ==
    IF ~m.flags.some THEN e
    ELSE LET flags == m.flags.value
             is_enabled ==
                 IF e.condition = "RedLine" THEN redline_reached(m)
                 ELSE flags.white \/ flags.yellow \/ flags.blue
         IN  [e EXCEPT !.enabled = is_enabled,
                       !.blink_configuration =
                           BlinkConfiguration_update(@, is_enabled, t)]

\* BlinkEffect::update, had it taken absent flag telemetry for "no flag"
BlinkEffect_update_AbsentIsFalse(e, m, t) ==
    LET is_enabled ==
            IF ~m.flags.some THEN FALSE
            ELSE CASE e.condition = "White" -> m.flags.value.white
                   [] e.condition = "Yellow" -> m.flags.value.yellow
                   [] e.condition = "Blue" -> m.flags.value.blue
                   [] e.condition = "RedLine" -> redline_reached(m)
    IN  [e EXCEPT !.enabled = is_enabled,
                  !.blink_configuration = BlinkConfiguration_update(@, is_enabled, t)]

\* BlinkEffect::update with the clock read at t
BlinkEffect_update(e, m, t) ==
    IF ~m.flags.some THEN e
    ELSE LET flags == m.flags.value
             is_enabled ==
                 CASE e.condition = "White" -> flags.white
                   [] e.condition = "Yellow" -> flags.yellow
                   [] e.condition = "Blue" -> flags.blue
                   [] e.condition = "RedLine" -> redline_reached(m)
         IN  [e EXCEPT !.enabled = is_enabled,
                       !.blink_configuration =
                           BlinkConfiguration_update(@, is_enabled, t)]

\* BlinkEffect::leds, had it yielded no LedGroup while the LEDs are off
BlinkEffect_leds_NothingWhenOff(e) ==
    LET cfg == e.blink_configuration
        lit == IF cfg.tag = "Disabled" THEN e.enabled
               ELSE cfg.state.tag = "LedsTurnedOn"
    IN  IF lit THEN <<e.on_leds>> ELSE <<>>

\* BlinkEffect::leds, had it shown only the blink phase
BlinkEffect_leds_OnlyBlinkPhase(e) ==
    LET cfg == e.blink_configuration
    IN  <<IF cfg.tag = "Enabled" /\ cfg.state.tag = "LedsTurnedOn"
          THEN e.on_leds ELSE e.off_leds>>

BlinkEffect_leds(e) ==
    LET cfg == e.blink_configuration
        leds == IF cfg.tag = "Disabled"
                THEN (IF e.enabled THEN e.on_leds ELSE e.off_leds)
                ELSE (IF cfg.state.tag = "LedsTurnedOn" THEN e.on_leds ELSE e.off_leds)
    IN  <<leds>>

BlinkEffect_disable(e) ==
    [e EXCEPT !.enabled = FALSE,
              !.blink_configuration = BlinkConfiguration_update(@, FALSE, 0)]

----------------------------------------------------------------------------
(* RpmGradientEffect *)

\* The colour of the gradient from start_color to end_color over the domain
\* 0 .. led_count - 1, sampled at position pos (clamped to the domain).
Gradient_at(container, pos) ==
    [start_color |-> container.start_color,
     end_color |-> container.end_color,
     at |-> Min(pos, container.led_count - 1),
     of |-> container.led_count - 1]

RpmGradientEffect_with_start_position(container, start_position) ==
    [kind |-> "RpmGradient",
     container |-> container,
     state |-> LedGroup_new(start_position, container.led_count),
     blink_state |-> NotBlinking]

\* A float cast to usize: negative values saturate to 0.
as_usize(x) == IF x < 0 THEN 0 ELSE Min(x, USIZE_MAX)

\* calculate_how_many_leds_to_turn_on, had it rounded to the nearest whole
\* number of LEDs
calculate_how_many_leds_to_turn_on_Nearest(e, rpm, max_rpm) ==
    LET led_count == Len(e.state.leds)
        c == e.container
    IN  IF c.use_percent
        THEN as_usize((2 * (rpm * 100 - c.percent_min * max_rpm) * led_count
                          + max_rpm * (c.percent_max - c.percent_min))
                         \div (2 * max_rpm * (c.percent_max - c.percent_min)))
        ELSE as_usize((2 * (rpm - c.rpm_min) * led_count + (c.rpm_max - c.rpm_min))
                         \div (2 * (c.rpm_max - c.rpm_min)))

calculate_how_many_leds_to_turn_on(e, rpm, max_rpm) ==
    LET led_count == Len(e.state.leds)
        c == e.container
    IN  IF c.use_percent
        THEN \* floor(((rpm / max_rpm * 100) - min) / (max - min) * led_count)
             as_usize(((rpm * 100 - c.percent_min * max_rpm) * led_count)
                         \div (max_rpm * (c.percent_max - c.percent_min)))
        ELSE as_usize(((rpm - c.rpm_min) * led_count) \div (c.rpm_max - c.rpm_min))

\* The gear in which the LEDs do not blink unless blink_on_last_gear is set.
LAST_GEAR == 6

RpmGradientEffect_calculate_next_blink_state(e, m, t) ==
    LET blink == IF e.container.blink_on_last_gear THEN TRUE
                 ELSE m.vehicle_gear # Some(LAST_GEAR)
    IN  IF redline_reached(m) /\ e.container.blink_enabled /\ blink THEN
            CASE e.blink_state.tag = "NotBlinking" -> LedsTurnedOn(t)
              [] e.blink_state.tag = "LedsTurnedOff" ->
                    IF t - e.blink_state.state_change >= e.container.blink_delay
                    THEN LedsTurnedOn(t) ELSE e.blink_state
              [] e.blink_state.tag = "LedsTurnedOn" ->
                    IF t - e.blink_state.state_change >= e.container.blink_delay
                    THEN LedsTurnedOff(t) ELSE e.blink_state
        ELSE NotBlinking

\* The iterator over the LEDs, had right_to_left not reversed it
RpmGradientEffect_led_number_NotReversed(c, n, i) == i - 1

\* The number that enumerate() gives the LED at place i (from 1) of the n
\* LEDs: the iterator is reversed with right_to_left
RpmGradientEffect_led_number(c, n, i) == IF c.right_to_left THEN n - i ELSE i - 1

\* The match on the blink state, had fill_all_leds been left out of it
RpmGradientEffect_enabled_NoFill(c, next_blink_state, led_number, leds_to_turn_on) ==
    CASE next_blink_state.tag = "NotBlinking" -> led_number < leds_to_turn_on
      [] next_blink_state.tag = "LedsTurnedOff" -> FALSE
      [] next_blink_state.tag = "LedsTurnedOn" -> TRUE

\* The match on the blink state, had the on phase of the blink kept the LEDs
\* that the RPM has not reached off
RpmGradientEffect_enabled_OnPhaseKeepsRpm(c, next_blink_state, led_number, leds_to_turn_on) ==
    CASE next_blink_state.tag = "NotBlinking" ->
            (IF c.gradient_on_all /\ c.fill_all_leds THEN TRUE
             ELSE led_number < leds_to_turn_on)
      [] next_blink_state.tag = "LedsTurnedOff" -> FALSE
      [] next_blink_state.tag = "LedsTurnedOn" -> led_number < leds_to_turn_on

\* Whether the LED with the given number is on: the match on the next blink
\* state
RpmGradientEffect_enabled(c, next_blink_state, led_number, leds_to_turn_on) ==
    CASE next_blink_state.tag = "NotBlinking" ->
            (IF c.gradient_on_all /\ c.fill_all_leds THEN TRUE
             ELSE led_number < leds_to_turn_on)
      [] next_blink_state.tag = "LedsTurnedOff" -> FALSE
      [] next_blink_state.tag = "LedsTurnedOn" -> TRUE

\* RpmGradientEffect::update with the clock read at t
RpmGradientEffect_update(e, m, t) ==
    IF ~m.vehicle_engine_rotation_speed.some THEN e
    ELSE IF ~m.vehicle_max_engine_rotation_speed.some THEN e
    ELSE
      LET c == e.container
          n == Len(e.state.leds)
          next_blink_state == RpmGradientEffect_calculate_next_blink_state(e, m, t)
          leds_to_turn_on ==
              calculate_how_many_leds_to_turn_on(e,
                  m.vehicle_engine_rotation_speed.value,
                  m.vehicle_max_engine_rotation_speed.value)
          led_number(i) == RpmGradientEffect_led_number(c, n, i)
          gradient_position(i) ==
              IF c.gradient_on_all THEN leds_to_turn_on ELSE led_number(i)
          enabled(i) ==
              RpmGradientEffect_enabled(c, next_blink_state, led_number(i),
                                        leds_to_turn_on)
      IN  [e EXCEPT !.state.leds =
                        [i \in 1..n |->
                            IF enabled(i) THEN On(Gradient_at(c, gradient_position(i)))
                            ELSE Off],
                    !.blink_state = next_blink_state]

RpmGradientEffect_leds(e) == <<e.state>>

\* RpmGradientEffect::disable, had it reset the blink state alone
RpmGradientEffect_disable_KeepsLeds(e) == [e EXCEPT !.blink_state = NotBlinking]

RpmGradientEffect_disable(e) ==
    [e EXCEPT !.blink_state = NotBlinking,
              !.state.leds = [i \in 1..Len(e.state.leds) |-> Off]]

----------------------------------------------------------------------------
(* LedSegment: one segment of an RpmSegmentsEffect *)

LedSegment_new(segment, blink_configuration, segment_position) ==
    [kind |-> "Segment",
     start_value |-> segment.start_value,
     enabled |-> FALSE,
     on_leds |-> LedGroup_with_color(segment.normal_color, segment_position,
                                     segment.led_count),
     off_leds |-> LedGroup_new(segment_position, segment.led_count),
     blink_leds |-> IF segment.blinking_color.some
                    THEN Some(LedGroup_with_color(segment.blinking_color.value,
                                                  segment_position, segment.led_count))
                    ELSE None,
     blink_configuration |-> blink_configuration]

\* LedSegment::leds, had the on phase of the blink not looked at blink_leds
LedSegment_leds_NoBlinkColour(e) ==
    LET cfg == e.blink_configuration
        leds == IF e.enabled THEN
                    IF cfg.tag = "Enabled" THEN
                        CASE cfg.state.tag = "NotBlinking" -> e.on_leds
                          [] cfg.state.tag = "LedsTurnedOff" -> e.off_leds
                          [] cfg.state.tag = "LedsTurnedOn" -> e.on_leds
                    ELSE e.on_leds
                ELSE e.off_leds
    IN  <<leds>>

LedSegment_leds(e) ==
    LET cfg == e.blink_configuration
        leds == IF e.enabled THEN
                    IF cfg.tag = "Enabled" THEN
                        CASE cfg.state.tag = "NotBlinking" -> e.on_leds
                          [] cfg.state.tag = "LedsTurnedOff" -> e.off_leds
                          [] cfg.state.tag = "LedsTurnedOn" ->
                                IF e.blink_leds.some THEN e.blink_leds.value
                                ELSE e.on_leds
                    ELSE e.on_leds
                ELSE e.off_leds
    IN  <<leds>>

\* LedSegment::update with the clock read at t
LedSegment_update(e, m, t) ==
    IF ~m.vehicle_engine_rotation_speed.some THEN e
    ELSE LET rpm == m.vehicle_engine_rotation_speed.value
             sv == e.start_value
             enabled ==
                 CASE sv.tag = "Rpm" -> rpm >= sv.value
                   [] sv.tag = "RpmPercentage" -> rpm_percentage(m) >= sv.value
                   [] sv.tag = "RedlinePercentage" ->
                         \* rpm / redline * 100 >= start_percentage
                         IF redline_rpm(m) > 0
                         THEN rpm * 100 >= sv.value * redline_rpm(m)
                         ELSE rpm > 0
         IN  [e EXCEPT !.enabled = enabled,
                       !.blink_configuration =
                           BlinkConfiguration_update(@, redline_reached(m), t)]

LedSegment_disable(e) ==
    [e EXCEPT !.enabled = FALSE,
              !.blink_configuration = BlinkConfiguration_disable(@)]

----------------------------------------------------------------------------
(* GroupCondition, EffectGroup, RpmSegmentsEffect and the LedEffect trait *)

AlwaysOn == [tag |-> "AlwaysOn"]

GameStarted == [tag |-> "GameStarted"]

Waiting == [tag |-> "Waiting"]

Triggered(t) == [tag |-> "Triggered", trigger_time |-> t]

Expired == [tag |-> "Expired"]

CarStarted(duration, state) ==
    [tag |-> "CarStarted", duration |-> duration, state |-> state]

Expression(formula) == [tag |-> "Expression", formula |-> formula]

\* From<&GroupContainer> for GroupCondition
GroupCondition_from(container) ==
    CASE container.group = "Simple" -> AlwaysOn
      [] container.group = "GameRunning" -> GameStarted
      [] container.group = "CarStarted" -> CarStarted(container.duration, Waiting)
      [] container.group = "Conditional" -> Expression(container.trigger_formula)

RECURSIVE NodeCount(_)
RECURSIVE LedEffect_update(_, _, _, _)
RECURSIVE LedEffect_leds(_)
RECURSIVE LedEffect_disable(_)
RECURSIVE LedEffect_led_count(_)

\* The number of nodes of an effect tree.  The nodes are numbered in the
\* order in which update() visits them: a group first, then its children.
NodeCount(e) ==
    CASE e.kind = "Group" ->
            1 + SumTo([i \in 1..Len(e.states) |-> NodeCount(e.states[i])], Len(e.states))
      [] e.kind = "RpmSegments" -> NodeCount(e.inner)
      [] OTHER -> 1

\* The number of the i-th child of the group that is node k
ChildNode(g, k, i) ==
    k + 1 + SumTo([j \in 1..Len(g.states) |-> NodeCount(g.states[j])], i - 1)

\* EffectGroup::update_states; rd[j] is the clock as node j reads it
EffectGroup_update_states(g, m, rd, k) ==
    [g EXCEPT !.states =
        [i \in 1..Len(g.states) |->
            LedEffect_update(g.states[i], m, rd, ChildNode(g, k, i))]]

\* EffectGroup::disable
EffectGroup_disable(g) ==
    [g EXCEPT !.states = [i \in 1..Len(g.states) |-> LedEffect_disable(g.states[i])]]

\* EffectGroup::update, had a Waiting group not forwarded the update that
\* triggers it
EffectGroup_update_NoForwardOnTrigger(g, m, rd, k) ==
    CASE g.condition.tag \in {"AlwaysOn", "GameStarted"} ->
            EffectGroup_update_states(g, m, rd, k)
      [] g.condition.tag = "CarStarted" ->
            ( CASE g.condition.state.tag = "Waiting" ->
                    IF is_engine_running(m)
                    THEN [g EXCEPT !.condition.state = Triggered(rd[k])]
                    ELSE g
              [] g.condition.state.tag = "Triggered" ->
                    IF rd[k] - g.condition.state.trigger_time >= g.condition.duration
                    THEN EffectGroup_disable([g EXCEPT !.condition.state = Expired])
                    ELSE EffectGroup_update_states(g, m, rd, k)
              [] g.condition.state.tag = "Expired" ->
                    IF ~is_engine_running(m)
                    THEN [g EXCEPT !.condition.state = Waiting]
                    ELSE g )
      [] g.condition.tag = "Expression" -> g

\* EffectGroup::update, had an expiring group left its children as they are
EffectGroup_update_NoDisableOnExpiry(g, m, rd, k) ==
    CASE g.condition.tag \in {"AlwaysOn", "GameStarted"} ->
            EffectGroup_update_states(g, m, rd, k)
      [] g.condition.tag = "CarStarted" ->
            ( CASE g.condition.state.tag = "Waiting" ->
                    IF is_engine_running(m)
                    THEN EffectGroup_update_states(
                             [g EXCEPT !.condition.state = Triggered(rd[k])], m, rd, k)
                    ELSE g
              [] g.condition.state.tag = "Triggered" ->
                    IF rd[k] - g.condition.state.trigger_time >= g.condition.duration
                    THEN [g EXCEPT !.condition.state = Expired]
                    ELSE EffectGroup_update_states(g, m, rd, k)
              [] g.condition.state.tag = "Expired" ->
                    IF ~is_engine_running(m)
                    THEN [g EXCEPT !.condition.state = Waiting]
                    ELSE g )
      [] g.condition.tag = "Expression" -> g

\* EffectGroup::update, had an Expired group gone on forwarding updates
\* while the engine runs
EffectGroup_update_ForwardsWhenExpired(g, m, rd, k) ==
    CASE g.condition.tag \in {"AlwaysOn", "GameStarted"} ->
            EffectGroup_update_states(g, m, rd, k)
      [] g.condition.tag = "CarStarted" ->
            ( CASE g.condition.state.tag = "Waiting" ->
                    IF is_engine_running(m)
                    THEN EffectGroup_update_states(
                             [g EXCEPT !.condition.state = Triggered(rd[k])], m, rd, k)
                    ELSE g
              [] g.condition.state.tag = "Triggered" ->
                    IF rd[k] - g.condition.state.trigger_time >= g.condition.duration
                    THEN EffectGroup_disable([g EXCEPT !.condition.state = Expired])
                    ELSE EffectGroup_update_states(g, m, rd, k)
              [] g.condition.state.tag = "Expired" ->
                    IF ~is_engine_running(m)
                    THEN [g EXCEPT !.condition.state = Waiting]
                    ELSE EffectGroup_update_states(g, m, rd, k) )
      [] g.condition.tag = "Expression" -> g

\* EffectGroup::update, had a group with an Expression forwarded the update
\* as an AlwaysOn group does
EffectGroup_update_ExpressionForwards(g, m, rd, k) ==
    CASE g.condition.tag \in {"AlwaysOn", "GameStarted", "Expression"} ->
            EffectGroup_update_states(g, m, rd, k)
      [] g.condition.tag = "CarStarted" ->
            ( CASE g.condition.state.tag = "Waiting" ->
                    IF is_engine_running(m)
                    THEN EffectGroup_update_states(
                             [g EXCEPT !.condition.state = Triggered(rd[k])], m, rd, k)
                    ELSE g
              [] g.condition.state.tag = "Triggered" ->
                    IF rd[k] - g.condition.state.trigger_time >= g.condition.duration
                    THEN EffectGroup_disable([g EXCEPT !.condition.state = Expired])
                    ELSE EffectGroup_update_states(g, m, rd, k)
              [] g.condition.state.tag = "Expired" ->
                    IF ~is_engine_running(m)
                    THEN [g EXCEPT !.condition.state = Waiting]
                    ELSE g )

\* EffectGroup::update, had a GameStarted group waited for a game that is
\* never reported as started
EffectGroup_update_GameStartedWaits(g, m, rd, k) ==
    CASE g.condition.tag = "AlwaysOn" -> EffectGroup_update_states(g, m, rd, k)
      [] g.condition.tag = "GameStarted" -> g
      [] g.condition.tag = "CarStarted" ->
            ( CASE g.condition.state.tag = "Waiting" ->
                    IF is_engine_running(m)
                    THEN EffectGroup_update_states(
                             [g EXCEPT !.condition.state = Triggered(rd[k])], m, rd, k)
                    ELSE g
              [] g.condition.state.tag = "Triggered" ->
                    IF rd[k] - g.condition.state.trigger_time >= g.condition.duration
                    THEN EffectGroup_disable([g EXCEPT !.condition.state = Expired])
                    ELSE EffectGroup_update_states(g, m, rd, k)
              [] g.condition.state.tag = "Expired" ->
                    IF ~is_engine_running(m)
                    THEN [g EXCEPT !.condition.state = Waiting]
                    ELSE g )
      [] g.condition.tag = "Expression" -> g

\* EffectGroup::update, had a Triggered CarStarted group gone back to Waiting
\* as soon as the engine stops, leaving its children as they are
EffectGroup_update_WaitsWhenEngineStops(g, m, rd, k) ==
    CASE g.condition.tag \in {"AlwaysOn", "GameStarted"} ->
            EffectGroup_update_states(g, m, rd, k)
      [] g.condition.tag = "CarStarted" ->
            ( CASE g.condition.state.tag = "Waiting" ->
                    IF is_engine_running(m)
                    THEN EffectGroup_update_states(
                             [g EXCEPT !.condition.state = Triggered(rd[k])], m, rd, k)
                    ELSE g
              [] g.condition.state.tag = "Triggered" ->
                    IF ~is_engine_running(m)
                    THEN [g EXCEPT !.condition.state = Waiting]
                    ELSE IF rd[k] - g.condition.state.trigger_time >= g.condition.duration
                    THEN EffectGroup_disable([g EXCEPT !.condition.state = Expired])
                    ELSE EffectGroup_update_states(g, m, rd, k)
              [] g.condition.state.tag = "Expired" ->
                    IF ~is_engine_running(m)
                    THEN [g EXCEPT !.condition.state = Waiting]
                    ELSE g )
      [] g.condition.tag = "Expression" -> g

\* EffectGroup::update, had every update() with the engine running started
\* the window of a Triggered CarStarted group anew
EffectGroup_update_RestartsWindow(g, m, rd, k) ==
    CASE g.condition.tag \in {"AlwaysOn", "GameStarted"} ->
            EffectGroup_update_states(g, m, rd, k)
      [] g.condition.tag = "CarStarted" ->
            ( CASE g.condition.state.tag = "Waiting" ->
                    IF is_engine_running(m)
                    THEN EffectGroup_update_states(
                             [g EXCEPT !.condition.state = Triggered(rd[k])], m, rd, k)
                    ELSE g
              [] g.condition.state.tag = "Triggered" ->
                    IF is_engine_running(m)
                    THEN EffectGroup_update_states(
                             [g EXCEPT !.condition.state = Triggered(rd[k])], m, rd, k)
                    ELSE IF rd[k] - g.condition.state.trigger_time >= g.condition.duration
                    THEN EffectGroup_disable([g EXCEPT !.condition.state = Expired])
                    ELSE EffectGroup_update_states(g, m, rd, k)
              [] g.condition.state.tag = "Expired" ->
                    IF ~is_engine_running(m)
                    THEN [g EXCEPT !.condition.state = Waiting]
                    ELSE g )
      [] g.condition.tag = "Expression" -> g

\* EffectGroup::update of the group that is node k
EffectGroup_update(g, m, rd, k) ==
    CASE g.condition.tag \in {"AlwaysOn", "GameStarted"} ->
            EffectGroup_update_states(g, m, rd, k)
      [] g.condition.tag = "CarStarted" ->
            ( CASE g.condition.state.tag = "Waiting" ->
                    IF is_engine_running(m)
                    THEN EffectGroup_update_states(
                             [g EXCEPT !.condition.state = Triggered(rd[k])], m, rd, k)
                    ELSE g
              [] g.condition.state.tag = "Triggered" ->
                    IF rd[k] - g.condition.state.trigger_time >= g.condition.duration
                    THEN EffectGroup_disable([g EXCEPT !.condition.state = Expired])
                    ELSE EffectGroup_update_states(g, m, rd, k)
              [] g.condition.state.tag = "Expired" ->
                    IF ~is_engine_running(m)
                    THEN [g EXCEPT !.condition.state = Waiting]
                    ELSE g )
      [] g.condition.tag = "Expression" -> g

\* EffectGroup::leds, had the children been walked from the last to the
\* first
RECURSIVE FlatMapLeds_Reversed(_, _)
FlatMapLeds_Reversed(states, n) ==
    IF n = 0 THEN <<>>
    ELSE LedEffect_leds(states[n]) \o FlatMapLeds_Reversed(states, n - 1)

\* EffectGroup::leds: the children's LedGroups, flattened in child order
RECURSIVE FlatMapLeds(_, _)
FlatMapLeds(states, n) ==
    IF n = 0 THEN <<>> ELSE FlatMapLeds(states, n - 1) \o LedEffect_leds(states[n])

EffectGroup_leds(g) == FlatMapLeds(g.states, Len(g.states))

\* EffectGroup::led_count, had it counted the children, not their LEDs
EffectGroup_led_count_CountsChildren(g) == Len(g.states)

\* EffectGroup::led_count
EffectGroup_led_count(g) ==
    SumTo([i \in 1..Len(g.states) |-> LedEffect_led_count(g.states[i])], Len(g.states))

\* The LedEffect trait, dispatched on the kind of the effect
LedEffect_update(e, m, rd, k) ==
    CASE e.kind = "Blink" -> BlinkEffect_update(e, m, rd[k])
      [] e.kind = "RpmGradient" -> RpmGradientEffect_update(e, m, rd[k])
      [] e.kind = "Segment" -> LedSegment_update(e, m, rd[k])
      [] e.kind = "Group" -> EffectGroup_update(e, m, rd, k)
      [] e.kind = "RpmSegments" ->
            [e EXCEPT !.inner = EffectGroup_update(e.inner, m, rd, k)]

LedEffect_leds(e) ==
    CASE e.kind = "Blink" -> BlinkEffect_leds(e)
      [] e.kind = "RpmGradient" -> RpmGradientEffect_leds(e)
      [] e.kind = "Segment" -> LedSegment_leds(e)
      [] e.kind = "Group" -> EffectGroup_leds(e)
      [] e.kind = "RpmSegments" -> EffectGroup_leds(e.inner)

LedEffect_disable(e) ==
    CASE e.kind = "Blink" -> BlinkEffect_disable(e)
      [] e.kind = "RpmGradient" -> RpmGradientEffect_disable(e)
      [] e.kind = "Segment" -> LedSegment_disable(e)
      [] e.kind = "Group" -> EffectGroup_disable(e)
      [] e.kind = "RpmSegments" -> [e EXCEPT !.inner = EffectGroup_disable(e.inner)]

\* LedEffect::led_count: the provided method counts the LEDs of leds()
LedEffect_led_count(e) ==
    CASE e.kind = "Blink" -> Len(e.on_leds.leds)
      [] e.kind = "RpmGradient" -> Len(e.state.leds)
      [] e.kind = "Group" -> EffectGroup_led_count(e)
      [] OTHER ->
            LET gs == LedEffect_leds(e)
            IN  SumTo([i \in 1..Len(gs) |-> Len(gs[i].leds)], Len(gs))

LedEffect_start_led(e) ==
    CASE e.kind = "Blink" -> e.on_leds.start_position
      [] e.kind = "RpmGradient" -> e.state.start_position
      [] e.kind = "Segment" -> e.on_leds.start_position
      [] e.kind = "Group" -> e.start_position
      [] e.kind = "RpmSegments" -> e.inner.start_position

----------------------------------------------------------------------------
(* The effect factory *)

\* RpmSegmentsEffect::with_start_position
RECURSIVE RpmSegments_loop(_, _, _, _)
RpmSegments_loop(container, i, segment_position, segments) ==
    IF i > Len(container.segments) THEN segments
    ELSE LET segment == container.segments[i]
             blink_configuration ==
                 IF container.blink_enabled
                 THEN Enabled(NotBlinking, Single(container.blink_delay))
                 ELSE Disabled
         IN  RpmSegments_loop(container, i + 1,
                 saturating_add(segment_position, segment.led_count),
                 Append(segments,
                        LedSegment_new(segment, blink_configuration, segment_position)))

RpmSegmentsEffect_with_start_position(container, start_position) ==
    [kind |-> "RpmSegments",
     inner |-> [kind |-> "Group",
                start_position |-> start_position,
                condition |-> AlwaysOn,
                states |-> RpmSegments_loop(container, 1, start_position, <<>>)]]

\* LedContainer::enabled
LedContainer_enabled(container) == container.is_enabled

RECURSIVE EffectGroup_new(_)
RECURSIVE EffectGroup_new_loop(_, _, _, _, _, _)

\* EffectGroup::create_led_effect, had a RedlineReached container had no
\* effect
EffectGroup_create_led_effect_NoRedline(container, start_position) ==
    CASE container.container_type = "Rpm" ->
            Some(RpmGradientEffect_with_start_position(container, start_position))
      [] container.container_type \in {"RpmSegments", "SpeedLimiterAnimation"} -> None
      [] container.container_type = "Group" -> Some(EffectGroup_new(container))
      [] container.container_type = "BlueFlag" ->
            Some(BlinkEffect_flag("Blue", container, start_position))
      [] container.container_type = "WhiteFlag" ->
            Some(BlinkEffect_flag("White", container, start_position))
      [] container.container_type = "YellowFlag" ->
            Some(BlinkEffect_flag("Yellow", container, start_position))
      [] container.container_type = "RedlineReached" -> None
      [] container.container_type = "Unknown" -> None

\* EffectGroup::create_led_effect: None for the containers without an effect
EffectGroup_create_led_effect(container, start_position) ==
    CASE container.container_type = "Rpm" ->
            Some(RpmGradientEffect_with_start_position(container, start_position))
      [] container.container_type \in {"RpmSegments", "SpeedLimiterAnimation"} -> None
      [] container.container_type = "Group" -> Some(EffectGroup_new(container))
      [] container.container_type = "BlueFlag" ->
            Some(BlinkEffect_flag("Blue", container, start_position))
      [] container.container_type = "WhiteFlag" ->
            Some(BlinkEffect_flag("White", container, start_position))
      [] container.container_type = "YellowFlag" ->
            Some(BlinkEffect_flag("Yellow", container, start_position))
      [] container.container_type = "RedlineReached" ->
            Some(BlinkEffect_redline(container, start_position))
      [] container.container_type = "Unknown" -> None

\* The loop of EffectGroup::new_helper, had a Layered child been placed at
\* the start of the group plus its own start position
RECURSIVE EffectGroup_new_loop_OffByOne(_, _, _, _, _, _)
EffectGroup_new_loop_OffByOne(group_start_position, stacking_type, containers, i, start_position, states) ==
    IF i > Len(containers)
    THEN [start_position |-> start_position, states |-> states]
    ELSE
      LET container == containers[i]
      IN  IF ~LedContainer_enabled(container)
          THEN EffectGroup_new_loop_OffByOne(group_start_position, stacking_type,
                                             containers, i + 1, start_position, states)
          ELSE
            LET position == IF stacking_type = "Layered"
                            THEN saturating_add(group_start_position,
                                                container.start_position)
                            ELSE start_position
                state == EffectGroup_create_led_effect(container, position)
            IN  IF ~state.some
                THEN EffectGroup_new_loop_OffByOne(group_start_position, stacking_type,
                                                   containers, i + 1, position, states)
                ELSE EffectGroup_new_loop_OffByOne(group_start_position, stacking_type,
                         containers, i + 1,
                         IF stacking_type = "LeftToRight"
                         THEN saturating_add(position, LedEffect_led_count(state.value))
                         ELSE position,
                         Append(states, state.value))

\* The loop of EffectGroup::new_helper, had the enabled flag been tested
\* only when the effect is pushed: a container that is not enabled takes
\* its room in a LeftToRight group
RECURSIVE EffectGroup_new_loop_DisabledTakesRoom(_, _, _, _, _, _)
EffectGroup_new_loop_DisabledTakesRoom(group_start_position, stacking_type, containers, i, start_position, states) ==
    IF i > Len(containers)
    THEN [start_position |-> start_position, states |-> states]
    ELSE
      LET container == containers[i]
          position == IF stacking_type = "Layered"
                      THEN saturating_add(group_start_position,
                                          container.start_position - 1)
                      ELSE start_position
          state == EffectGroup_create_led_effect(container, position)
      IN  IF ~state.some
          THEN EffectGroup_new_loop_DisabledTakesRoom(group_start_position,
                   stacking_type, containers, i + 1, position, states)
          ELSE EffectGroup_new_loop_DisabledTakesRoom(group_start_position,
                   stacking_type, containers, i + 1,
                   IF stacking_type = "LeftToRight"
                   THEN saturating_add(position, LedEffect_led_count(state.value))
                   ELSE position,
                   IF LedContainer_enabled(container)
                   THEN Append(states, state.value) ELSE states)

\* The loop of EffectGroup::new_helper over containers[i ..]: the local
\* start_position (the cursor) and the states built so far
EffectGroup_new_loop(group_start_position, stacking_type, containers, i, start_position, states) ==
    IF i > Len(containers)
    THEN [start_position |-> start_position, states |-> states]
    ELSE
      LET container == containers[i]
      IN  IF ~LedContainer_enabled(container)
          THEN EffectGroup_new_loop(group_start_position, stacking_type, containers,
                                    i + 1, start_position, states)
          ELSE
            LET position == IF stacking_type = "Layered"
                            THEN saturating_add(group_start_position,
                                                container.start_position - 1)
                            ELSE start_position
                state == EffectGroup_create_led_effect(container, position)
            IN  IF ~state.some
                THEN EffectGroup_new_loop(group_start_position, stacking_type,
                                          containers, i + 1, position, states)
                ELSE EffectGroup_new_loop(group_start_position, stacking_type,
                         containers, i + 1,
                         IF stacking_type = "LeftToRight"
                         THEN saturating_add(position, LedEffect_led_count(state.value))
                         ELSE position,
                         Append(states, state.value))

\* EffectGroup::new_helper: the group keeps the local start_position as it
\* is after the loop
EffectGroup_new_helper(condition, group_start_position, stacking_type, containers) ==
    LET built == EffectGroup_new_loop(group_start_position, stacking_type, containers,
                                      1, group_start_position, <<>>)
    IN  [kind |-> "Group",
         start_position |-> built.start_position,
         condition |-> condition,
         states |-> built.states]

EffectGroup_new(container) ==
    EffectGroup_new_helper(GroupCondition_from(container), container.start_position,
                           container.stacking_type, container.led_containers)

\* EffectGroup::root, from the led_containers of the profile
EffectGroup_root(led_containers) ==
    EffectGroup_new_helper(AlwaysOn, 1, "Layered", led_containers)

----------------------------------------------------------------------------
(* Profiles: the containers the effect trees are built from *)

FlagContainer(type, start_position, led_count, color, blink_enabled, blink_delay, dual_blink_timing_enabled, on_delay, off_delay) ==
    [container_type |-> type, is_enabled |-> TRUE,
     led_count |-> led_count, start_position |-> start_position,
     color |-> Color(color), blink_enabled |-> blink_enabled,
     blink_delay |-> blink_delay,
     dual_blink_timing_enabled |-> dual_blink_timing_enabled,
     off_delay |-> off_delay, on_delay |-> on_delay]

RpmContainer(start_position, led_count, use_percent, blink_enabled, blink_on_last_gear, right_to_left, gradient_on_all, fill_all_leds) ==
    [container_type |-> "Rpm", is_enabled |-> TRUE,
     start_position |-> start_position, led_count |-> led_count,
     use_percent |-> use_percent, percent_min |-> 85, percent_max |-> 95,
     rpm_min |-> 10, rpm_max |-> 80,
     start_color |-> Color("Lime"), end_color |-> Color("Red"),
     right_to_left |-> right_to_left, blink_enabled |-> blink_enabled,
     blink_delay |-> 1, blink_on_last_gear |-> blink_on_last_gear,
     gradient_on_all |-> gradient_on_all, fill_all_leds |-> fill_all_leds]

GroupContainer(group, stacking_type, start_position, duration, led_containers) ==
    [container_type |-> "Group", group |-> group, is_enabled |-> TRUE,
     stacking_type |-> stacking_type, start_position |-> start_position,
     duration |-> duration, trigger_formula |-> "formula",
     led_containers |-> led_containers]

LedSegmentContainer(tag, start_value, normal_color, blinking_color, led_count) ==
    [start_value |-> [tag |-> tag, value |-> start_value],
     normal_color |-> Color(normal_color),
     blinking_color |-> blinking_color, led_count |-> led_count]

RpmSegmentsContainer(blink_enabled, segments) ==
    [container_type |-> "RpmSegments", is_enabled |-> TRUE, start_position |-> 1,
     blink_enabled |-> blink_enabled, blink_delay |-> 1,
     blink_on_last_gear |-> TRUE, segments |-> segments]

YellowBlink == FlagContainer("YellowFlag", 3, 2, "Yellow", TRUE, 2, FALSE, 1, 3)

WhiteDualBlink == FlagContainer("WhiteFlag", 1, 2, "White", TRUE, 3, TRUE, 1, 2)

BlueSteady == FlagContainer("BlueFlag", 2, 1, "Blue", FALSE, 1, FALSE, 1, 1)

RedlineBlink == FlagContainer("RedlineReached", 1, 2, "Red", TRUE, 1, FALSE, 1, 1)

RedlineSteady == FlagContainer("RedlineReached", 3, 1, "Red", FALSE, 1, FALSE, 1, 1)

RpmPercent == RpmContainer(1, 3, TRUE, TRUE, FALSE, FALSE, FALSE, FALSE)

RpmValues == RpmContainer(2, 2, FALSE, TRUE, TRUE, TRUE, TRUE, FALSE)

CarStartedGroup ==
    GroupContainer("CarStarted", "Layered", 1, 2, <<YellowBlink, RedlineSteady>>)

PercentSegments ==
    RpmSegmentsContainer(TRUE,
        <<LedSegmentContainer("RpmPercentage", 50, "Lime", Some(Color("Blue")), 2),
          LedSegmentContainer("RpmPercentage", 90, "Red", None, 1)>>)

\* A flag container without blinking
SteadyFlag(type, color, start_position, led_count) ==
    FlagContainer(type, start_position, led_count, color, FALSE, 1, FALSE, 1, 1)

\* A container with IsEnabled false
NotEnabled(container) == [container EXCEPT !.is_enabled = FALSE]

\* LedContainer::Unknown: a container type that is not recognized
UnknownContainer(start_position) ==
    [container_type |-> "Unknown", is_enabled |-> TRUE,
     start_position |-> start_position]

SpeedLimiterAnimationContainer(start_position) ==
    [container_type |-> "SpeedLimiterAnimation", is_enabled |-> TRUE,
     start_position |-> start_position]

\* The two white flag containers of the tests of EffectGroup
WhiteFirst == SteadyFlag("WhiteFlag", "White", 1, 3)

WhiteSecond == SteadyFlag("WhiteFlag", "White", 14, 3)

YellowOne == SteadyFlag("YellowFlag", "Yellow", 2, 1)

BlueOne == SteadyFlag("BlueFlag", "Blue", 4, 1)

RpmSteady == RpmContainer(2, 2, TRUE, FALSE, FALSE, FALSE, FALSE, FALSE)

\* A group inside a group
InnerGroup(stacking_type) ==
    GroupContainer("Simple", stacking_type, 2, 2,
                   <<SteadyFlag("YellowFlag", "Yellow", 1, 2), BlueOne>>)

\* The lists of containers the groups of the layout profiles are made of
LayoutChildren ==
    {<<WhiteFirst, WhiteSecond>>,
     <<WhiteFirst, NotEnabled(SteadyFlag("YellowFlag", "Yellow", 5, 2)), WhiteSecond>>,
     <<WhiteFirst, UnknownContainer(7), SpeedLimiterAnimationContainer(9), WhiteSecond>>,
     <<YellowOne, InnerGroup("Layered"), BlueSteady>>,
     <<YellowOne, InnerGroup("LeftToRight"), BlueSteady>>,
     <<RpmSteady, PercentSegments, RedlineSteady>>,
     <<YellowBlink, BlueOne>>}

\* The start positions of the groups: at the start of the device, further
\* up, and so close to the largest position that the additions saturate
LayoutStarts == {1, 3, USIZE_MAX - 2}

LayoutGroups ==
    {GroupContainer(group, stacking_type, start_position, 2, led_containers) :
        group \in {"Simple", "GameRunning", "Conditional"},
        stacking_type \in {"Layered", "LeftToRight"},
        start_position \in LayoutStarts,
        led_containers \in LayoutChildren}

\* The profiles whose layout is resolved: one group, or one list of
\* containers directly in the profile
LayoutProfiles ==
    {<<g>> : g \in LayoutGroups} \cup LayoutChildren \cup {<<PercentSegments>>}

----------------------------------------------------------------------------
(* Deserialize for LedContainer *)

\* A string is the sequence of its pieces: "." for a dot and a word for
\* a run of other characters, so that <<"A", ".", "B">> is "A.B" and
\* <<"A", "B">> is "AB".

\* str::split('.'): the parts of the string between its dots, the first one
RECURSIVE str_split(_)
str_split(s) ==
    IF s = <<>> THEN << <<>> >>
    ELSE LET rest == str_split(Tail(s))
         IN  IF Head(s) = "." THEN << <<>> >> \o rest
             ELSE << <<Head(s)>> \o rest[1] >> \o Tail(rest)

\* Iterator::last, had it been the first item
Iterator_last_TakesFirst(items) == IF items = <<>> THEN None ELSE Some(items[1])

\* Iterator::last
Iterator_last(items) == IF items = <<>> THEN None ELSE Some(items[Len(items)])

Ok(v) == [ok |-> TRUE, value |-> v]

Err == [ok |-> FALSE]

\* An object of the led_containers array: its ContainerType, its
\* StartPosition, when it has one, and the struct that the rest of its fields
\* can be deserialized as ("Nothing" when none)
RawValue(container_type, start_position, fields) ==
    [ContainerType |-> container_type, StartPosition |-> start_position,
     fields |-> fields]

\* The Helper struct: StartPosition is a NonZeroUsize, 1 when it is missing
Helper_deserialize(json) ==
    IF ~json.StartPosition.some THEN Ok([container_type |-> json.ContainerType,
                                         start_position |-> 1])
    ELSE IF json.StartPosition.value = 0 THEN Err
    ELSE Ok([container_type |-> json.ContainerType,
             start_position |-> json.StartPosition.value])

\* from_str::<T>(content): the content as the struct T of the variant, when
\* it has the fields of T
from_str(struct, content, container) ==
    IF content.fields = struct THEN Ok(container) ELSE Err

\* The match on the last part of the container type
LedContainer_match(container_type, helper, json) ==
    LET start_position == helper.start_position
        group(kind) ==
            GroupContainer(kind, "Layered", start_position, 2, <<YellowOne>>)
    IN  CASE container_type = <<"RPMContainer">> ->
                from_str("RpmContainer", json,
                         [RpmSteady EXCEPT !.start_position = start_position])
          [] container_type = <<"RPMSegmentsContainer">> ->
                from_str("RpmSegmentsContainer", json,
                         [PercentSegments EXCEPT !.start_position = start_position])
          [] container_type = <<"RedlineReachedContainer">> ->
                from_str("RedlineReachedContainer", json,
                         [RedlineSteady EXCEPT !.start_position = start_position])
          [] container_type = <<"SpeedLimiterAnimationContainer">> ->
                from_str("SpeedLimiterAnimationContainer", json,
                         SpeedLimiterAnimationContainer(start_position))
          [] container_type = <<"YellowFlagContainer">> ->
                from_str("FlagContainer", json,
                         SteadyFlag("YellowFlag", "Yellow", start_position, 2))
          [] container_type = <<"BlueFlagContainer">> ->
                from_str("FlagContainer", json,
                         SteadyFlag("BlueFlag", "Yellow", start_position, 2))
          [] container_type = <<"WhiteFlagContainer">> ->
                from_str("FlagContainer", json,
                         SteadyFlag("WhiteFlag", "Yellow", start_position, 2))
          [] container_type = <<"GroupContainer">> ->
                from_str("SimpleGroupContainer", json, group("Simple"))
          [] container_type = <<"GameRunningGroupContainer">> ->
                from_str("SimpleGroupContainer", json, group("GameRunning"))
          [] container_type = <<"GameCarStatedGroupContainer">> ->
                from_str("TimeLimitedGroupContainer", json, group("CarStarted"))
          [] container_type = <<"CustomConditionalGroupContainer">> ->
                from_str("ConditionalGroupContainer", json, group("Conditional"))
          [] OTHER -> Ok(UnknownContainer(start_position))

\* <LedContainer as Deserialize>::deserialize
LedContainer_deserialize(json) ==
    LET helper == Helper_deserialize(json)
    IN  IF ~helper.ok THEN Err
        ELSE LET container_type ==
                     Iterator_last(str_split(helper.value.container_type))
             IN  IF ~container_type.some THEN Err
                 ELSE LedContainer_match(container_type.value, helper.value, json)

\* The telemetry sources: the values each getter of their moments can take
AllFlags == {RacingFlags(w, y, b) : w \in BOOLEAN, y \in BOOLEAN, b \in BOOLEAN}

Moments(flags, rpms, max_rpms, gears, starters) ==
    {Moment(f, r, x, g, s) : f \in flags, r \in rpms, x \in max_rpms,
                             g \in gears, s \in starters}

SourceMoments(name) ==
    CASE name = "flags" ->
            Moments({None} \cup {Some(f) : f \in AllFlags}, {None}, {None}, {None}, {None})
      [] name = "redline" ->
            Moments({None, Some(RacingFlags(FALSE, FALSE, FALSE))},
                    {None, Some(50), Some(100)}, {None, Some(100)}, {None}, {None})
      [] name = "rpm" ->
            Moments({None}, {None, Some(0), Some(50), Some(90), Some(100)},
                    {None, Some(100)}, {None, Some(LAST_GEAR)}, {None})
      [] name = "car" ->
            Moments({None, Some(RacingFlags(FALSE, FALSE, FALSE)),
                     Some(RacingFlags(FALSE, TRUE, FALSE))},
                    {None, Some(0), Some(100)}, {Some(100)}, {None},
                    {None, Some(TRUE), Some(FALSE)})

      [] name = "layout" ->
            Moments({None, Some(RacingFlags(TRUE, TRUE, TRUE)),
                     Some(RacingFlags(FALSE, TRUE, FALSE)),
                     Some(RacingFlags(FALSE, FALSE, FALSE))},
                    {Some(90)}, {Some(100)}, {None}, {None})
      [] name = "margin" ->
            Moments({Some(RacingFlags(FALSE, FALSE, FALSE))},
                    {None, Some(97), Some(98), Some(99), Some(100), Some(101),
                     Some(102), Some(103)},
                    {None, Some(100)}, {None}, {None})
      [] name = "gradient" ->
            Moments({None},
                    {None, Some(10), Some(60), Some(85), Some(87), Some(90),
                     Some(95)},
                    {None, Some(60), Some(100)}, {None}, {None})
      [] name = "poll" ->
            Moments({None, Some(RacingFlags(FALSE, FALSE, FALSE)),
                     Some(RacingFlags(TRUE, TRUE, FALSE))},
                    {Some(0), Some(100)}, {Some(100)}, {None}, {Some(FALSE)})

(* The device: GridBrows *)

\* The number of LEDs of the device
LED_COUNT == 18

\* Color::to_rgba8 of the colours the profiles name, without the alpha
\* channel, which Led::set_color drops
Color_to_rgba8(color) ==
    CASE color.name = "Black" -> <<0, 0, 0>>
      [] color.name = "White" -> <<255, 255, 255>>
      [] color.name = "Yellow" -> <<255, 255, 0>>
      [] color.name = "Blue" -> <<0, 0, 255>>
      [] color.name = "Red" -> <<255, 0, 0>>
      [] color.name = "Lime" -> <<0, 255, 0>>

\* Led::set_color: the three colour bytes of the command of the LED
Led_set_color(color) == Color_to_rgba8(color)

\* GridBrows::open: the colour bytes of every command are zero
GridBrows_open == [i \in 1..LED_COUNT |-> <<0, 0, 0>>]

\* GridBrows::apply_led_state, had an Off of the LedGroup left the LED of the
\* device as it is
GridBrows_apply_led_state_OffIsTransparent(buf, led_state) ==
    [i \in 1..LED_COUNT |->
        LET j == i - (led_state.start_position - 1)
        IN  IF j >= 1 /\ j <= Len(led_state.leds) /\ led_state.leds[j].tag = "On"
            THEN Led_set_color(led_state.leds[j].color)
            ELSE buf[i]]

\* GridBrows::apply_led_state: the LEDs of the device from start_led on are
\* paired with the LEDs of the LedGroup, as far as both reach; On sets the
\* colour, Off sets black
GridBrows_apply_led_state(buf, led_state) ==
    [i \in 1..LED_COUNT |->
        LET j == i - (led_state.start_position - 1)
        IN  IF j >= 1 /\ j <= Len(led_state.leds)
            THEN (IF led_state.leds[j].tag = "On"
                  THEN Led_set_color(led_state.leds[j].color)
                  ELSE Led_set_color(Color("Black")))
            ELSE buf[i]]

\* The effect trees that are driven, each with its telemetry source
Configurations ==
    {[profile |-> <<YellowBlink>>,
      effect |-> EffectGroup_root(<<YellowBlink>>), source |-> "flags"],
     [profile |-> <<WhiteDualBlink, BlueSteady>>,
      effect |-> EffectGroup_root(<<WhiteDualBlink, BlueSteady>>), source |-> "flags"],
     [profile |-> <<RedlineBlink>>,
      effect |-> EffectGroup_root(<<RedlineBlink>>), source |-> "redline"],
     [profile |-> <<RpmPercent>>,
      effect |-> EffectGroup_root(<<RpmPercent>>), source |-> "rpm"],
     [profile |-> <<RpmValues>>,
      effect |-> EffectGroup_root(<<RpmValues>>), source |-> "rpm"],
     [profile |-> <<CarStartedGroup>>,
      effect |-> EffectGroup_root(<<CarStartedGroup>>), source |-> "car"],
     [profile |-> <<PercentSegments>>,
      effect |-> RpmSegmentsEffect_with_start_position(PercentSegments, 1),
      source |-> "rpm"]}

----------------------------------------------------------------------------
(* The state machine *)

\* The moment before any update: no getter has a value
NoMoment == Moment(None, None, None, None, None)

\* The clock readings of one update() of a tree of n nodes, starting at t:
\* the clock never runs backwards between two reads
Readings(t, n) ==
    {rd \in [1..n -> t..Min(t + MaxSkew, MaxTime)] :
        \A i \in 1..(n - 1) : rd[i] <= rd[i + 1]}

Init ==
    /\ \E c \in Configurations :
          profile = c.profile /\ effect = c.effect /\ source = c.source
    /\ now = 0
    /\ sim_state = NoMoment
    /\ clock = <<>>
    /\ op = "new"
    /\ applied = <<>>
    /\ buffer = GridBrows_open
    /\ document = <<>>
    /\ prev = effect

\* update() is called on the tree with the next moment of the source
Update ==
    \E m \in SourceMoments(source), rd \in Readings(now, NodeCount(effect)) :
        /\ effect' = LedEffect_update(effect, m, rd, 1)
        /\ sim_state' = m
        /\ clock' = rd
        /\ now' = rd[Len(rd)]
        /\ op' = "update"
        /\ prev' = effect
        /\ UNCHANGED <<buffer, document, profile, source, applied>>

\* disable() is called on the tree
Disable ==
    /\ effect' = LedEffect_disable(effect)
    /\ op' = "disable"
    /\ prev' = effect
    /\ sim_state' = NoMoment
    /\ clock' = <<>>
    /\ UNCHANGED <<buffer, document, profile, source, now, applied>>

\* Time passes while the run loop waits for the next moment
Sleep ==
    /\ now < MaxTime
    /\ now' = now + 1
    /\ op' = "sleep"
    /\ prev' = effect
    /\ sim_state' = NoMoment
    /\ clock' = <<>>
    /\ UNCHANGED <<buffer, document, profile, effect, source, applied>>

Next == Update \/ Disable \/ Sleep

Spec == Init /\ [][Next]_vars

\* The run loop with the effect tree of a layout profile, as
\* EffectGroup::root builds it
LayoutInit ==
    /\ profile \in LayoutProfiles
    /\ effect = EffectGroup_root(profile)
    /\ source = "layout"
    /\ now = 0
    /\ sim_state = NoMoment
    /\ clock = <<>>
    /\ op = "new"
    /\ applied = <<>>
    /\ buffer = GridBrows_open
    /\ document = <<>>
    /\ prev = effect

LayoutSpec == LayoutInit /\ [][Next]_vars

\* RPM segments with a start value of every kind, with and without a colour
\* of their own for the blink, the last one starting above the redline
MixedSegments(blink_enabled) ==
    RpmSegmentsContainer(blink_enabled,
        <<LedSegmentContainer("Rpm", 50, "Lime", Some(Color("Blue")), 2),
          LedSegmentContainer("RpmPercentage", 90, "Red", None, 1),
          LedSegmentContainer("RedlinePercentage", 100, "Blue", Some(Color("White")), 1),
          LedSegmentContainer("Rpm", 101, "Red", Some(Color("White")), 1)>>)

SegmentsContainers == {PercentSegments, MixedSegments(TRUE), MixedSegments(FALSE)}

\* The run loop with an RPM segments effect, as
\* RpmSegmentsEffect::with_start_position builds it
SegmentsInit ==
    /\ \E c \in SegmentsContainers :
          /\ profile = <<c>>
          /\ effect = RpmSegmentsEffect_with_start_position(c, c.start_position)
    /\ source = "rpm"
    /\ now = 0
    /\ sim_state = NoMoment
    /\ clock = <<>>
    /\ op = "new"
    /\ applied = <<>>
    /\ buffer = GridBrows_open
    /\ document = <<>>
    /\ prev = effect

SegmentsSpec == SegmentsInit /\ [][Next]_vars

\* The run loop with a redline effect, steady or blinking, and an RPM on
\* either side of the margin of the redline
RedlineInit ==
    /\ profile \in {<<RedlineSteady>>, <<RedlineBlink>>}
    /\ effect = EffectGroup_root(profile)
    /\ source = "margin"
    /\ now = 0
    /\ sim_state = NoMoment
    /\ clock = <<>>
    /\ op = "new"
    /\ applied = <<>>
    /\ buffer = GridBrows_open
    /\ document = <<>>
    /\ prev = effect

RedlineSpec == RedlineInit /\ [][Next]_vars

\* The RPM gradients of the tests of the effect: five LEDs from 85 to 95
\* percent of the maximum RPM, or from rpm_min to rpm_max, with every choice
\* of the switches of the container
GradientContainers ==
    {RpmContainer(1, 5, use_percent, blink_enabled, FALSE, right_to_left,
                  gradient_on_all, fill_all_leds) :
        use_percent \in BOOLEAN, blink_enabled \in BOOLEAN,
        right_to_left \in BOOLEAN, gradient_on_all \in BOOLEAN,
        fill_all_leds \in BOOLEAN}

\* The run loop with an RPM gradient as the only effect of the profile
GradientInit ==
    /\ \E c \in GradientContainers : profile = <<c>>
    /\ effect = EffectGroup_root(profile)
    /\ source = "gradient"
    /\ now = 0
    /\ sim_state = NoMoment
    /\ clock = <<>>
    /\ op = "new"
    /\ applied = <<>>
    /\ buffer = GridBrows_open
    /\ document = <<>>
    /\ prev = effect

GradientSpec == GradientInit /\ [][Next]_vars

----------------------------------------------------------------------------
(* Loading a profile *)

\* The container types of the match, each with the struct of its content
KnownTypes ==
    {<<"RPMContainer", "RpmContainer">>,
     <<"RPMSegmentsContainer", "RpmSegmentsContainer">>,
     <<"RedlineReachedContainer", "RedlineReachedContainer">>,
     <<"SpeedLimiterAnimationContainer", "SpeedLimiterAnimationContainer">>,
     <<"YellowFlagContainer", "FlagContainer">>,
     <<"BlueFlagContainer", "FlagContainer">>,
     <<"WhiteFlagContainer", "FlagContainer">>,
     <<"GroupContainer", "SimpleGroupContainer">>,
     <<"GameRunningGroupContainer", "SimpleGroupContainer">>,
     <<"GameCarStatedGroupContainer", "TimeLimitedGroupContainer">>,
     <<"CustomConditionalGroupContainer", "ConditionalGroupContainer">>}

\* The container types of the documents: every known type alone and behind
\* a namespace, and types that are not known: a known type in front of
\* another part, as the end of a longer word, behind a dot at the end, with
\* its typo put right, the empty string
ContainerTypes ==
    {<<t[1]>> : t \in KnownTypes}
        \cup {<<"SimHub", ".", "Plugins", ".", t[1]>> : t \in KnownTypes}
        \cup {<<"RPMContainer", ".", "Other">>, <<"Other", "RPMContainer">>,
              <<"SimHub", ".", "RPMContainer", ".">>, <<"SimHub", ".", "Other">>,
              <<"Other">>, <<"GameCarStartedGroupContainer">>, <<>>}

\* The objects of the led_containers array of the documents
RawValues ==
    {RawValue(t, s, f) :
        t \in ContainerTypes, s \in {None, Some(0), Some(1), Some(3)},
        f \in {k[2] : k \in KnownTypes} \cup {"Nothing"}}

\* The led_containers arrays of the documents: one object, or one object
\* behind a yellow flag container
Documents ==
    {<<r>> : r \in RawValues}
        \cup {<<RawValue(<<"YellowFlagContainer">>, None, "FlagContainer"), r>> :
                 r \in RawValues}

\* The led_containers of a profile document are about to be deserialized
LoadInit ==
    /\ buffer = GridBrows_open
    /\ document \in Documents
    /\ profile = <<>>
    /\ effect = EffectGroup_root(<<>>)
    /\ source = "layout"
    /\ now = 0
    /\ sim_state = NoMoment
    /\ clock = <<>>
    /\ op = "load"
    /\ applied = <<>>
    /\ prev = effect

\* Vec<LedContainer>::deserialize: the next object of the array is
\* deserialized, and the load fails when the object is an error
DeserializeContainer ==
    /\ op \in {"load", "deserialize"}
    /\ Len(profile) < Len(document)
    /\ LET container == LedContainer_deserialize(document[Len(profile) + 1])
       IN  IF container.ok
           THEN /\ profile' = Append(profile, container.value)
                /\ op' = "deserialize"
           ELSE /\ op' = "failed"
                /\ UNCHANGED profile
    /\ UNCHANGED <<buffer, document, effect, source, now, sim_state, clock, applied,
                   prev>>

\* EffectGroup::root(profile.led_containers) once the document is loaded
BuildEffects ==
    /\ op \in {"load", "deserialize"}
    /\ Len(profile) = Len(document)
    /\ effect' = EffectGroup_root(profile)
    /\ op' = "new"
    /\ prev' = effect'
    /\ UNCHANGED <<buffer, document, profile, source, now, sim_state, clock, applied>>

LoadNext == DeserializeContainer \/ BuildEffects

LoadSpec == LoadInit /\ [][LoadNext]_vars

----------------------------------------------------------------------------
(* run_led_profile: the loop that drives the device *)

\* The effect trees the loop is run with
LoopConfigurations ==
    {[profile |-> <<YellowBlink>>,
      effect |-> EffectGroup_root(<<YellowBlink>>), source |-> "flags"],
     [profile |-> <<WhiteDualBlink, BlueSteady>>,
      effect |-> EffectGroup_root(<<WhiteDualBlink, BlueSteady>>), source |-> "flags"],
     [profile |-> <<InnerGroup("LeftToRight"), YellowOne, BlueOne>>,
      effect |-> EffectGroup_root(<<InnerGroup("LeftToRight"), YellowOne, BlueOne>>),
      source |-> "layout"],
     [profile |-> <<PercentSegments>>,
      effect |-> EffectGroup_root(<<PercentSegments>>), source |-> "layout"]}

\* The device is turned off and the loop is entered
LoopInit ==
    /\ \E c \in LoopConfigurations :
          profile = c.profile /\ effect = c.effect /\ source = c.source
    /\ now = 0
    /\ sim_state = NoMoment
    /\ clock = <<>>
    /\ op = "new"
    /\ applied = <<>>
    /\ buffer = GridBrows_open
    /\ document = <<>>
    /\ prev = effect

\* The iterator over leds(), had it ended one LedGroup early
LedsIterator_next_SkipsLast(groups, n) ==
    IF n + 1 < Len(groups) THEN Some(groups[n + 1]) ELSE None

\* The iterator of `for state in led_state.leds()` after n of the groups
LedsIterator_next(groups, n) ==
    IF n < Len(groups) THEN Some(groups[n + 1]) ELSE None

\* client.next_sim_state().await: the loop is entered, or the for loop over
\* leds() has ended, and the next moment arrives, now or a tick later
NextSimState ==
    /\ \/ op = "new"
       \/ /\ op \in {"update", "apply"}
          /\ ~LedsIterator_next(LedEffect_leds(effect), Len(applied)).some
    /\ \E m \in SourceMoments(source) : sim_state' = m
    /\ now' \in now..Min(now + 1, MaxTime)
    /\ op' = "next_sim_state"
    /\ clock' = <<>>
    /\ UNCHANGED <<buffer, document, profile, effect, source, applied, prev>>

\* led_state.update(&sim_state)
LoopUpdate ==
    /\ op = "next_sim_state"
    /\ \E rd \in Readings(now, NodeCount(effect)) :
          /\ effect' = LedEffect_update(effect, sim_state, rd, 1)
          /\ clock' = rd
          /\ now' = rd[Len(rd)]
    /\ applied' = <<>>
    /\ op' = "update"
    /\ prev' = effect
    /\ UNCHANGED <<buffer, document, profile, source, sim_state>>

\* self.apply_led_state(state)?: the next LedGroup of leds() is written to
\* the command buffer and the buffer is sent to the device, or sending it
\* fails and run_led_profile returns the error
ApplyLedState ==
    /\ op \in {"update", "apply"}
    /\ LedsIterator_next(LedEffect_leds(effect), Len(applied)).some
    /\ buffer' = GridBrows_apply_led_state(buffer,
                     LedsIterator_next(LedEffect_leds(effect), Len(applied)).value)
    /\ \/ /\ applied' = Append(applied,
                  LedsIterator_next(LedEffect_leds(effect), Len(applied)).value)
          /\ op' = "apply"
       \/ /\ op' = "failed"
          /\ UNCHANGED applied
    /\ UNCHANGED <<document, profile, effect, source, now, sim_state, clock, prev>>

LoopNext == NextSimState \/ LoopUpdate \/ ApplyLedState

LoopSpec == LoopInit /\ [][LoopNext]_vars

----------------------------------------------------------------------------
(* The run loop polled for ever *)

\* A flag effect that blinks with a delay of zero
ZeroDelayBlink == FlagContainer("YellowFlag", 1, 1, "Yellow", TRUE, 0, FALSE, 0, 0)

\* The effect trees that are polled for ever: a blink effect with a delay of
\* zero, with one delay and with two, and a CarStarted group
PollProfiles ==
    {<<ZeroDelayBlink>>, <<YellowBlink>>, <<WhiteDualBlink>>, <<CarStartedGroup>>}

PollInit ==
    /\ profile \in PollProfiles
    /\ effect = EffectGroup_root(profile)
    /\ source = "poll"
    /\ now = 0
    /\ sim_state = NoMoment
    /\ clock = <<>>
    /\ op = "new"
    /\ applied = <<>>
    /\ buffer = GridBrows_open
    /\ document = <<>>
    /\ prev = effect

\* The reading of the clock beyond which every delay and every duration of
\* the polled trees has passed, whatever instant it is counted from
Horizon == MaxTime - 2

\* An Instant is only ever read through elapsed(): the same instant, counted
\* from an epoch that is `by` later; an instant before that epoch counts as
\* the epoch
Instant_rebase(t, by) == IF t >= by THEN t - by ELSE 0

BlinkState_rebase(state, by) ==
    IF state.tag = "NotBlinking" THEN state
    ELSE [state EXCEPT !.state_change = Instant_rebase(@, by)]

BlinkConfiguration_rebase(cfg, by) ==
    IF cfg.tag = "Enabled"
    THEN [cfg EXCEPT !.state = BlinkState_rebase(@, by)]
    ELSE cfg

GroupCondition_rebase(condition, by) ==
    IF condition.tag = "CarStarted" /\ condition.state.tag = "Triggered"
    THEN [condition EXCEPT !.state.trigger_time = Instant_rebase(@, by)]
    ELSE condition

\* The effect tree with every Instant it holds counted from the later epoch
RECURSIVE LedEffect_rebase(_, _)
LedEffect_rebase(e, by) ==
    CASE e.kind \in {"Blink", "Segment"} ->
            [e EXCEPT !.blink_configuration = BlinkConfiguration_rebase(@, by)]
      [] e.kind = "RpmGradient" ->
            [e EXCEPT !.blink_state = BlinkState_rebase(@, by)]
      [] e.kind = "Group" ->
            [e EXCEPT !.condition = GroupCondition_rebase(@, by),
                      !.states = [i \in 1..Len(e.states) |->
                                     LedEffect_rebase(e.states[i], by)]]
      [] e.kind = "RpmSegments" ->
            [e EXCEPT !.inner = LedEffect_rebase(e.inner, by)]

\* The clock has reached MaxTime: time is counted from a later epoch from
\* here on, which no elapsed() of the tree can tell from the earlier one,
\* as every instant that moves to the epoch lies Horizon or more behind
Rewind ==
    /\ now = MaxTime
    /\ now' = Horizon
    /\ effect' = LedEffect_rebase(effect, MaxTime - Horizon)
    /\ op' = "rewind"
    /\ prev' = effect
    /\ sim_state' = NoMoment
    /\ clock' = <<>>
    /\ UNCHANGED <<buffer, document, profile, source, applied>>

PollNext == Update \/ Sleep \/ Rewind

\* run_led_profile never leaves its loop while the device accepts the
\* writes: update() is called again and again, and the clock moves on
PollSpec ==
    /\ PollInit
    /\ [][PollNext]_vars
    /\ WF_vars(Update) /\ WF_vars(Sleep) /\ WF_vars(Rewind)

----------------------------------------------------------------------------
(* What the properties below speak about *)

\* The nodes of a tree in the order update() visits them, each with
\* `direct`: every group above it forwards update() unconditionally
RECURSIVE Walk(_, _)
RECURSIVE WalkAll(_, _, _)
Walk(e, direct) ==
    CASE e.kind = "Group" ->
            <<[node |-> e, direct |-> direct]>>
                \o WalkAll(e.states, Len(e.states),
                           direct /\ e.condition.tag \in {"AlwaysOn", "GameStarted"})
      [] e.kind = "RpmSegments" -> Walk(e.inner, direct)
      [] OTHER -> <<[node |-> e, direct |-> direct]>>

WalkAll(states, n, direct) ==
    IF n = 0 THEN <<>> ELSE WalkAll(states, n - 1, direct) \o Walk(states[n], direct)

\* The nodes before and after the last operation
Was == Walk(prev, TRUE)

Is == Walk(effect, TRUE)

\* Node k is an effect of the given kind that the last operation, an
\* update() of the tree, has called update() on
Updated(k, kind) == op = "update" /\ Was[k].direct /\ Was[k].node.kind = kind

AllOff(groups) ==
    \A g \in 1..Len(groups) : \A i \in 1..Len(groups[g].leds) :
        groups[g].leds[i] = Off

AllOn(groups) ==
    \A g \in 1..Len(groups) : \A i \in 1..Len(groups[g].leds) :
        groups[g].leds[i].tag = "On"

\* Every LED of the groups is on in the given colour
AllOnIn(groups, color) ==
    \A g \in 1..Len(groups) : \A i \in 1..Len(groups[g].leds) :
        groups[g].leds[i] = On(color)

\* The moment reports the flag of a flag effect as true / as false
FlagIs(m, condition, value) ==
    /\ m.flags.some
    /\ \/ condition = "White" /\ m.flags.value.white = value
       \/ condition = "Yellow" /\ m.flags.value.yellow = value
       \/ condition = "Blue" /\ m.flags.value.blue = value

\* The active signal of a blink effect in the moment
ActiveSignal(m, condition) ==
    /\ m.flags.some
    /\ \/ FlagIs(m, condition, TRUE)
       \/ condition = "RedLine" /\ redline_reached(m)

\* The blink state of a blink effect that blinks
BlinkStateOf(e) == e.blink_configuration.state

Blinks(e) == e.blink_configuration.tag = "Enabled"

\* The configured delays of the on phase and of the off phase
OnDelay(e) ==
    IF e.container.dual_blink_timing_enabled
    THEN e.container.on_delay ELSE e.container.blink_delay

OffDelay(e) ==
    IF e.container.dual_blink_timing_enabled
    THEN e.container.off_delay ELSE e.container.blink_delay

----------------------------------------------------------------------------
(* Flag blink effects *)

\* C1: the first update() of a blinking flag effect that sees its flag true
\* while NotBlinking moves to LedsTurnedOn{now} and leds() shows every LED On
\* in the configured colour on that same tick.
C1_BlinkStartsInOnPhase ==
    \A k \in 1..Len(Is) :
        LET p == Was[k].node
            e == Is[k].node
        IN  ( /\ Updated(k, "Blink")
              /\ p.condition # "RedLine"
              /\ Blinks(p)
              /\ BlinkStateOf(p) = NotBlinking
              /\ FlagIs(sim_state, p.condition, TRUE) )
            => /\ BlinkStateOf(e) = LedsTurnedOn(clock[k])
               /\ Len(LedEffect_leds(e)) = 1
               /\ Len(LedEffect_leds(e)[1].leds) = e.container.led_count
               /\ AllOnIn(LedEffect_leds(e), e.container.color)

C1_Witness ==
    \E k \in 1..Len(Is) :
        /\ Updated(k, "Blink")
        /\ Was[k].node.condition # "RedLine"
        /\ Blinks(Was[k].node)
        /\ BlinkStateOf(Was[k].node) = NotBlinking
        /\ FlagIs(sim_state, Was[k].node.condition, TRUE)
        /\ BlinkStateOf(Is[k].node).tag = "LedsTurnedOn"

\* C2: an update() of a flag effect whose moment reports the flag false sets
\* the blink state to NotBlinking and makes every LED Off on that tick,
\* whatever the phase before and however short the time since it changed.
C2_FlagFalseTurnsOff ==
    \A k \in 1..Len(Is) :
        LET p == Was[k].node
            e == Is[k].node
        IN  ( /\ Updated(k, "Blink")
              /\ p.condition # "RedLine"
              /\ FlagIs(sim_state, p.condition, FALSE) )
            => /\ Blinks(e) => BlinkStateOf(e) = NotBlinking
               /\ AllOff(LedEffect_leds(e))

\* the flag drops in the on phase, before the on delay has passed
C2_Witness ==
    \E k \in 1..Len(Is) :
        /\ Updated(k, "Blink")
        /\ Was[k].node.condition # "RedLine"
        /\ FlagIs(sim_state, Was[k].node.condition, FALSE)
        /\ Blinks(Was[k].node)
        /\ BlinkStateOf(Was[k].node).tag = "LedsTurnedOn"
        /\ clock[k] - BlinkStateOf(Was[k].node).state_change < OnDelay(Was[k].node)
        /\ AllOff(LedEffect_leds(Is[k].node))

----------------------------------------------------------------------------
(* The shared blink state machine *)

\* C3: with the active signal true and the state LedsTurnedOn{since}, an
\* update() at time now moves to LedsTurnedOff{now} if and only if
\* now - since >= on_delay, the elapsed time equal to on_delay included;
\* otherwise the state and the visible LEDs are unchanged.
C3_OnPhaseEndsAtOnDelay ==
    \A k \in 1..Len(Is) :
        LET p == Was[k].node
            e == Is[k].node
        IN  ( /\ Updated(k, "Blink")
              /\ Blinks(p)
              /\ BlinkStateOf(p).tag = "LedsTurnedOn"
              /\ ActiveSignal(sim_state, p.condition) )
            => IF clock[k] - BlinkStateOf(p).state_change >= OnDelay(p)
               THEN BlinkStateOf(e) = LedsTurnedOff(clock[k])
               ELSE /\ BlinkStateOf(e) = BlinkStateOf(p)
                    /\ LedEffect_leds(e) = LedEffect_leds(p)

\* C4: with the active signal true and the state LedsTurnedOff{since}, an
\* update() moves to LedsTurnedOn{now} if and only if now - since >= off_delay;
\* the delays of the two phases are OnDelay and OffDelay with dual blink
\* timing and both BlinkDelay without it.
C4_OffPhaseEndsAtOffDelay ==
    \A k \in 1..Len(Is) :
        LET p == Was[k].node
            e == Is[k].node
        IN  /\ (Is[k].node.kind = "Blink" /\ Blinks(e))
                => /\ on_timeout(e.blink_configuration.timings) = OnDelay(e)
                   /\ off_timeout(e.blink_configuration.timings) = OffDelay(e)
            /\ ( /\ Updated(k, "Blink")
                 /\ Blinks(p)
                 /\ BlinkStateOf(p).tag = "LedsTurnedOff"
                 /\ ActiveSignal(sim_state, p.condition) )
               => IF clock[k] - BlinkStateOf(p).state_change >= OffDelay(p)
                  THEN BlinkStateOf(e) = LedsTurnedOn(clock[k])
                  ELSE BlinkStateOf(e) = BlinkStateOf(p)

\* an effect with dual blink timing in its off phase is updated before its
\* off delay has passed and stays off, and another one is turned on again
C4_Witness ==
    \E k \in 1..Len(Is) :
        /\ Updated(k, "Blink")
        /\ Was[k].node.container.dual_blink_timing_enabled
        /\ Blinks(Was[k].node)
        /\ BlinkStateOf(Was[k].node).tag = "LedsTurnedOff"
        /\ ActiveSignal(sim_state, Was[k].node.condition)
        /\ clock[k] - BlinkStateOf(Was[k].node).state_change = OffDelay(Was[k].node)
        /\ BlinkStateOf(Is[k].node) = LedsTurnedOn(clock[k])

\* C5: a flag effect that does not blink shows the raw condition: after every
\* update() with flag telemetry, all LEDs are On if the flag is true and all
\* are Off if it is false, without alternation.
C5_SteadyFlagPassesThrough ==
    \A k \in 1..Len(Is) :
        LET p == Was[k].node
            e == Is[k].node
        IN  ( /\ Updated(k, "Blink")
              /\ p.condition # "RedLine"
              /\ ~p.container.blink_enabled
              /\ sim_state.flags.some )
            => IF FlagIs(sim_state, p.condition, TRUE)
               THEN AllOnIn(LedEffect_leds(e), e.container.color)
               ELSE AllOff(LedEffect_leds(e))

\* the flag has been true for longer than the blink delay and the LEDs are on
C5_Witness ==
    \E k \in 1..Len(Is) :
        /\ Updated(k, "Blink")
        /\ Was[k].node.condition # "RedLine"
        /\ ~Was[k].node.container.blink_enabled
        /\ FlagIs(sim_state, Was[k].node.condition, TRUE)
        /\ Was[k].node.enabled
        /\ clock[k] > 2 * Was[k].node.container.blink_delay
        /\ AllOn(LedEffect_leds(Is[k].node))

----------------------------------------------------------------------------
(* Unavailable telemetry *)

\* C6: an update() without the telemetry an effect needs changes nothing: a
\* flag effect without flag telemetry and an RPM gradient without RPM or
\* without maximum RPM keep their blink state and their leds() output.
C6_AbsentTelemetryChangesNothing ==
    \A k \in 1..Len(Is) :
        LET p == Was[k].node
            e == Is[k].node
        IN  /\ ( /\ Updated(k, "Blink")
                 /\ p.condition # "RedLine"
                 /\ ~sim_state.flags.some )
               => /\ e.blink_configuration = p.blink_configuration
                  /\ LedEffect_leds(e) = LedEffect_leds(p)
            /\ ( /\ Updated(k, "RpmGradient")
                 /\ \/ ~sim_state.vehicle_engine_rotation_speed.some
                    \/ ~sim_state.vehicle_max_engine_rotation_speed.some )
               => /\ e.blink_state = p.blink_state
                  /\ LedEffect_leds(e) = LedEffect_leds(p)

\* a flag effect in a blink phase, and a lit gradient, are updated without
\* their telemetry
C6_Witness ==
    /\ op = "update"
    /\ \E k \in 1..Len(Is) :
        \/ /\ Updated(k, "Blink")
           /\ Was[k].node.condition # "RedLine"
           /\ ~sim_state.flags.some
           /\ Blinks(Was[k].node)
           /\ BlinkStateOf(Is[k].node).tag = "LedsTurnedOn"
           /\ clock[k] - BlinkStateOf(Is[k].node).state_change
                  > OnDelay(Is[k].node)
        \/ /\ Updated(k, "RpmGradient")
           /\ sim_state.vehicle_engine_rotation_speed.some
           /\ ~sim_state.vehicle_max_engine_rotation_speed.some
           /\ ~AllOff(LedEffect_leds(Is[k].node))

\* C7: an update() of a lit or blinking redline effect with a moment in which
\* RPM or maximum RPM is unavailable is skipped: blink state and leds()
\* stay as they were.
C7_RedlineSkipsWithoutRpm ==
    \A k \in 1..Len(Is) :
        LET p == Was[k].node
            e == Is[k].node
        IN  ( /\ Updated(k, "Blink")
              /\ p.condition = "RedLine"
              /\ ~AllOff(LedEffect_leds(p)) \/ (Blinks(p) /\ BlinkStateOf(p) # NotBlinking)
              /\ \/ ~sim_state.vehicle_engine_rotation_speed.some
                 \/ ~sim_state.vehicle_max_engine_rotation_speed.some )
            => /\ e.blink_configuration = p.blink_configuration
               /\ LedEffect_leds(e) = LedEffect_leds(p)

----------------------------------------------------------------------------
(* disable() *)

\* Some effect of the tree is in a blink phase
SomeNodeBlinks(nodes) ==
    \E k \in 1..Len(nodes) :
        \/ /\ nodes[k].node.kind \in {"Blink", "Segment"}
           /\ Blinks(nodes[k].node)
           /\ BlinkStateOf(nodes[k].node) # NotBlinking
        \/ /\ nodes[k].node.kind = "RpmGradient"
           /\ nodes[k].node.blink_state # NotBlinking

\* C8: after disable() of an effect (a flag or redline blink effect, an RPM
\* gradient, an RPM segment, or a group with all its descendants) leds()
\* shows every LED the effect owns as Off, whatever phase it was in before.
C8_DisableTurnsEverythingOff ==
    op = "disable" =>
        /\ AllOff(LedEffect_leds(effect))
        /\ \A k \in 1..Len(Is) : AllOff(LedEffect_leds(Is[k].node))
        /\ Len(LedEffect_leds(effect)) = Len(LedEffect_leds(prev))

\* a tree with lit LEDs and an effect in a blink phase is disabled
C8_Witness ==
    /\ op = "disable"
    /\ ~AllOff(LedEffect_leds(prev))
    /\ SomeNodeBlinks(Was)
    /\ AllOff(LedEffect_leds(effect))

----------------------------------------------------------------------------
(* The CarStarted group *)

\* Node k is a CarStarted group that the last update() has reached in the
\* given condition state
CarStartedWas(k, tag) ==
    /\ Updated(k, "Group")
    /\ Was[k].node.condition.tag = "CarStarted"
    /\ Was[k].node.condition.state.tag = tag

\* The last update() was forwarded to every child of the group that is node k
Forwarded(k) ==
    LET p == Was[k].node
        e == Is[k].node
    IN  \A i \in 1..Len(p.states) :
            e.states[i] = LedEffect_update(p.states[i], sim_state, clock,
                                           ChildNode(p, k, i))

\* The last update() has changed some child of the group that is node k
SomeChildChanged(k) ==
    \E i \in 1..Len(Was[k].node.states) :
        Is[k].node.states[i] # Was[k].node.states[i]

\* C9: a CarStarted group that is Waiting and gets an update() whose moment
\* reports the engine running becomes Triggered{since: now} and forwards the
\* update of that tick to every child; without the engine running it stays
\* Waiting.
C9_WaitingUntilEngineRuns ==
    \A k \in 1..Len(Is) :
        CarStartedWas(k, "Waiting") =>
            IF is_engine_running(sim_state)
            THEN /\ Is[k].node.condition.state = Triggered(clock[k])
                 /\ Forwarded(k)
            ELSE Is[k].node.condition.state = Waiting

C9_Witness ==
    \E k \in 1..Len(Is) :
        /\ CarStartedWas(k, "Waiting")
        /\ is_engine_running(sim_state)
        /\ Is[k].node.condition.state.tag = "Triggered"
        /\ SomeChildChanged(k)
        /\ ~AllOff(LedEffect_leds(Is[k].node))

\* C10: a CarStarted group that is Triggered{since} and gets an update() at
\* time now becomes Expired with every LED of every child Off if
\* now - since >= duration, and otherwise stays Triggered and forwards the
\* update to every child.
C10_TriggeredUntilDuration ==
    \A k \in 1..Len(Is) :
        CarStartedWas(k, "Triggered") =>
            IF clock[k] - Was[k].node.condition.state.trigger_time
                   >= Was[k].node.condition.duration
            THEN /\ Is[k].node.condition.state = Expired
                 /\ \A i \in 1..Len(Is[k].node.states) :
                        AllOff(LedEffect_leds(Is[k].node.states[i]))
            ELSE /\ Is[k].node.condition.state = Was[k].node.condition.state
                 /\ Forwarded(k)

\* the group expires while its children are lit
C10_Witness ==
    \E k \in 1..Len(Is) :
        /\ CarStartedWas(k, "Triggered")
        /\ ~AllOff(LedEffect_leds(Was[k].node))
        /\ clock[k] - Was[k].node.condition.state.trigger_time
               = Was[k].node.condition.duration
        /\ Is[k].node.condition.state = Expired
        /\ AllOff(LedEffect_leds(Is[k].node))

\* Node k was a CarStarted group in the state Expired before the last
\* operation
ExpiredWas(k) ==
    /\ Was[k].node.kind = "Group"
    /\ Was[k].node.condition.tag = "CarStarted"
    /\ Was[k].node.condition.state = Expired

\* C11: a CarStarted group that is Expired forwards no update to its children
\* and stays Expired while the moments report the engine running; it leaves
\* Expired only by an update() whose moment reports the engine not running,
\* and then to Waiting, never to Triggered.
C11_ExpiredUntilEngineStops ==
    \A k \in 1..Len(Is) :
        ExpiredWas(k) =>
            /\ Is[k].node.states = Was[k].node.states
            /\ IF Updated(k, "Group") /\ ~is_engine_running(sim_state)
               THEN Is[k].node.condition.state = Waiting
               ELSE Is[k].node.condition.state = Expired

\* an Expired group gets a moment with the engine running and a raised flag
\* that would light a child, had the update been forwarded
C11_Witness ==
    \E k \in 1..Len(Is) :
        /\ CarStartedWas(k, "Expired")
        /\ is_engine_running(sim_state)
        /\ FlagIs(sim_state, "Yellow", TRUE)
        /\ \E i \in 1..Len(Was[k].node.states) :
              LedEffect_update(Was[k].node.states[i], sim_state, clock,
                               ChildNode(Was[k].node, k, i))
                  # Was[k].node.states[i]
        /\ Is[k].node = Was[k].node

----------------------------------------------------------------------------
(* The layout of the effect tree *)

\* The enabled group containers of a list of containers, and the group
\* effects of a list of effects: EffectGroup::new turns every enabled
\* group container into a group effect, in the order of the list
IsGroupContainer(container) ==
    container.container_type = "Group" /\ LedContainer_enabled(container)

GroupContainers(containers) == SelectSeq(containers, IsGroupContainer)

IsGroup(e) == e.kind = "Group"

GroupNodes(states) == SelectSeq(states, IsGroup)

\* The position on the device of the first LED of a leaf effect
StartOf(e) == LedEffect_leds(e)[1].start_position

\* A position, clamped at the largest position there is
Clamped(position) == Min(position, USIZE_MAX)

\* The number of LEDs of the children of a group before its n-th child
LedsBefore(g, n) ==
    SumTo([m \in 1..Len(g.states) |-> LedEffect_led_count(g.states[m])], n - 1)

\* The leaf children of the group effect g are where the stacking type puts
\* them when the group starts at start_position
LaidOut(g, start_position, stacking_type) ==
    \A n \in 1..Len(g.states) :
        ~IsGroup(g.states[n]) =>
            StartOf(g.states[n]) =
                IF stacking_type = "Layered"
                THEN Clamped(start_position + g.states[n].container.start_position - 1)
                ELSE Clamped(start_position + LedsBefore(g, n))

\* C12: in a group built from its container every leaf child starts, with
\* Layered stacking, at the start of the group + (its declared start - 1)
\* and, with LeftToRight stacking, at the start of the group for the first
\* child and at the start of the previous child + the LED count of the
\* previous child for the others (a group at 3 with two children of 3 LEDs
\* declared at 1 and 14: 3 and 16 Layered, 3 and 6 LeftToRight).
C12_LeafStartsFollowStacking ==
    /\ Len(GroupNodes(effect.states)) = Len(GroupContainers(profile))
    /\ \A i \in 1..Len(GroupContainers(profile)) :
          LET container == GroupContainers(profile)[i]
              g == GroupNodes(effect.states)[i]
          IN  /\ LaidOut(g, container.start_position, container.stacking_type)
              /\ ( /\ container.start_position = 3
                   /\ container.led_containers = <<WhiteFirst, WhiteSecond>> )
                 => /\ Len(g.states) = 2
                    /\ StartOf(g.states[1]) = 3
                    /\ StartOf(g.states[2]) =
                           IF container.stacking_type = "Layered" THEN 16 ELSE 6

\* the group of the tests with LeftToRight stacking, after an update that
\* lights it
C12_Witness ==
    /\ Len(profile) = 1
    /\ IsGroupContainer(profile[1])
    /\ profile[1].stacking_type = "LeftToRight"
    /\ profile[1].start_position = 3
    /\ profile[1].led_containers = <<WhiteFirst, WhiteSecond>>
    /\ Len(LedEffect_leds(effect)) = 2
    /\ LedEffect_leds(effect)[1].start_position = 3
    /\ LedEffect_leds(effect)[2].start_position = 6
    /\ AllOn(LedEffect_leds(effect))

\* The place of the j-th group effect in a list of effects
GroupIndex(states, j) ==
    CHOOSE n \in 1..Len(states) :
        IsGroup(states[n]) /\ Len(GroupNodes(SubSeq(states, 1, n))) = j

\* The start the layout rule gives the n-th child of the group effect g that
\* starts at start_position, when the child declares declared_start
ChildStart(g, start_position, stacking_type, n, declared_start) ==
    IF stacking_type = "Layered"
    THEN Clamped(start_position + declared_start - 1)
    ELSE Clamped(start_position + LedsBefore(g, n))

\* C13: a group inside a group lays out its children from the absolute start
\* its parent computed for it (Layered: the start of the parent + the declared
\* start of the inner group - 1; LeftToRight: the running cursor of the
\* parent), not from its own declared start.
C13_NestedGroupStartsWhereParentPutsIt ==
    \A i \in 1..Len(GroupContainers(profile)) :
        LET outer == GroupContainers(profile)[i]
            g == GroupNodes(effect.states)[i]
        IN  \A j \in 1..Len(GroupContainers(outer.led_containers)) :
                LET inner == GroupContainers(outer.led_containers)[j]
                    n == GroupIndex(g.states, j)
                IN  LaidOut(g.states[n],
                            ChildStart(g, outer.start_position, outer.stacking_type,
                                       n, inner.start_position),
                            inner.stacking_type)

\* C14: start_led() of a group effect is the resolved absolute start of the
\* group, the position on the device where its first LED belongs, whatever
\* the number, the positions and the LED counts of its children and whatever
\* its stacking type.
C14_GroupStartLedIsItsStart ==
    /\ LedEffect_start_led(effect) = 1
    /\ \A i \in 1..Len(GroupContainers(profile)) :
          LedEffect_start_led(GroupNodes(effect.states)[i])
              = GroupContainers(profile)[i].start_position

\* A container that the construction of the tree skips: it is not enabled,
\* or it is of a kind without an effect
Skipped(container) ==
    \/ ~LedContainer_enabled(container)
    \/ container.container_type \in {"Unknown", "SpeedLimiterAnimation"}

\* A list of containers without the skipped ones, at every depth
RECURSIVE Pruned(_)
Pruned(containers) ==
    IF containers = <<>> THEN <<>>
    ELSE LET container == Head(containers)
         IN  IF Skipped(container) THEN Pruned(Tail(containers))
             ELSE IF container.container_type = "Group"
             THEN <<[container EXCEPT !.led_containers = Pruned(@)]>>
                      \o Pruned(Tail(containers))
             ELSE <<container>> \o Pruned(Tail(containers))

\* Where the LedGroups of an effect are on the device: the start and the
\* number of LEDs of each
Placement(e) ==
    [n \in 1..Len(LedEffect_leds(e)) |->
        [start_position |-> LedEffect_leds(e)[n].start_position,
         led_count |-> Len(LedEffect_leds(e)[n].leds)]]

\* Some LeftToRight group of the profile holds a skipped container in front
\* of one that is not skipped
SkippedInFront(containers) ==
    \E i \in 1..Len(containers) :
        /\ IsGroupContainer(containers[i])
        /\ containers[i].stacking_type = "LeftToRight"
        /\ \E a, b \in 1..Len(containers[i].led_containers) :
              /\ a < b
              /\ Skipped(containers[i].led_containers[a])
              /\ ~Skipped(containers[i].led_containers[b])

\* C15: a container that is skipped when the tree is built (it is not
\* enabled, or its kind, such as Unknown or SpeedLimiterAnimation, has no
\* effect) gives no child node and, LeftToRight, does not advance the cursor:
\* the other containers get the absolute starts they would have without it.
C15_SkippedContainersLeaveNoTrace ==
    LET without == EffectGroup_root(Pruned(profile))
    IN  /\ Len(Is) = Len(Walk(without, TRUE))
        /\ Placement(effect) = Placement(without)
        /\ \A k \in 1..Len(Is) :
              ~IsGroup(Is[k].node) => ~Skipped(Is[k].node.container)

\* a LeftToRight group with a skipped container in front of another one
C15_Witness ==
    /\ SkippedInFront(profile)
    /\ Pruned(profile) # profile
    /\ Len(LedEffect_leds(effect)) = 2
    /\ LedEffect_leds(effect)[2].start_position
           = LedEffect_leds(effect)[1].start_position + 3

----------------------------------------------------------------------------
(* What holds of every effect tree *)

\* The number of LED entries in a sequence of LedGroups
LedEntries(groups) ==
    SumTo([n \in 1..Len(groups) |-> Len(groups[n].leds)], Len(groups))

\* The sum of led_count() over the children of a group effect
ChildrenLedCount(g) ==
    SumTo([n \in 1..Len(g.states) |-> LedEffect_led_count(g.states[n])],
          Len(g.states))

\* The tree holds a group inside a group
HoldsInnerGroup(nodes) ==
    \E k \in 1..Len(nodes) :
        /\ k > 1
        /\ IsGroup(nodes[k].node)
        /\ \E n \in 1..Len(nodes[k].node.states) :
              IsGroup(nodes[k].node.states[n])

\* C16: in every effect tree, however deep, and after every sequence of
\* update() and disable(), led_count() of each group is the sum of
\* led_count() of its children and the number of LED entries of the
\* LedGroups that its leds() yields.
C16_GroupLedCountIsSumOfChildren ==
    \A k \in 1..Len(Is) :
        IsGroup(Is[k].node) =>
            /\ LedEffect_led_count(Is[k].node) = ChildrenLedCount(Is[k].node)
            /\ LedEffect_led_count(Is[k].node) = LedEntries(LedEffect_leds(Is[k].node))

\* a tree with a group inside a group, disabled after its LEDs were lit
C16_Witness ==
    /\ HoldsInnerGroup(Is)
    /\ op = "disable"
    /\ ~AllOff(LedEffect_leds(prev))
    /\ LedEffect_led_count(effect) = 5
    /\ LedEntries(LedEffect_leds(effect)) = 5

\* C17: for every profile and after every sequence of operations, every
\* LedGroup that leds() yields has a start position of at least 1, also
\* when the additions of the layout saturate at the largest position: a
\* saturating addition never wraps around to 0.
C17_StartPositionsAreNonZero ==
    \A n \in 1..Len(LedEffect_leds(effect)) :
        /\ LedEffect_leds(effect)[n].start_position >= 1
        /\ LedEffect_leds(effect)[n].start_position <= USIZE_MAX

\* a group so far up that the start of a child saturates, with its LEDs lit
C17_Witness ==
    /\ op = "update"
    /\ Len(profile) = 1
    /\ IsGroupContainer(profile[1])
    /\ profile[1].start_position + 3 > USIZE_MAX
    /\ \E n \in 1..Len(LedEffect_leds(effect)) :
          /\ LedEffect_leds(effect)[n].start_position = USIZE_MAX
          /\ AllOn(<<LedEffect_leds(effect)[n]>>)

----------------------------------------------------------------------------
(* Which containers the factory turns into effects *)

\* The only container of the profile is an enabled container of the type
OnlyContainerIs(type) ==
    /\ Len(profile) = 1
    /\ profile[1].container_type = type
    /\ LedContainer_enabled(profile[1])

C19_SegmentsContainerBecomesEffect ==
    OnlyContainerIs("RpmSegments") =>
        /\ Len(effect.states) = 1
        /\ effect.states[1].kind = "RpmSegments"
        /\ Len(LedEffect_leds(effect)) = Len(profile[1].segments)

----------------------------------------------------------------------------
(* The group with an Expression *)

\* Node k is a group whose condition is an Expression
ExpressionGroup(nodes, k) ==
    IsGroup(nodes[k].node) /\ nodes[k].node.condition.tag = "Expression"

\* C20: update() of a group whose condition is Expression{formula} does
\* nothing: no child is updated and no state changes, so whatever the
\* moments, leds() of the group stays as it was built, every LED Off.
C20_ExpressionGroupIgnoresUpdates ==
    \A k \in 1..Len(Is) :
        ExpressionGroup(Is, k) =>
            /\ op = "update" => Is[k].node = Was[k].node
            /\ AllOff(LedEffect_leds(Is[k].node))

\* such a group gets a moment with every flag raised, which would light its
\* children had the update been forwarded
C20_Witness ==
    \E k \in 1..Len(Is) :
        /\ op = "update"
        /\ ExpressionGroup(Was, k)
        /\ Was[k].direct
        /\ FlagIs(sim_state, "White", TRUE)
        /\ \E i \in 1..Len(Was[k].node.states) :
              ~AllOff(LedEffect_leds(
                  LedEffect_update(Was[k].node.states[i], sim_state, clock,
                                   ChildNode(Was[k].node, k, i))))
        /\ Len(LedEffect_leds(Is[k].node)) >= 2
        /\ AllOff(LedEffect_leds(Is[k].node))

----------------------------------------------------------------------------
(* The GameStarted group *)

\* The tree with every GameStarted group made an AlwaysOn group
RECURSIVE AsAlwaysOn(_)
AsAlwaysOn(e) ==
    IF ~IsGroup(e) THEN e
    ELSE [e EXCEPT
            !.condition = IF e.condition.tag = "GameStarted" THEN AlwaysOn
                          ELSE e.condition,
            !.states = [n \in 1..Len(e.states) |-> AsAlwaysOn(e.states[n])]]

\* The containers with every GameRunning group made a Simple group
RECURSIVE AsSimple(_)
AsSimple(containers) ==
    [n \in 1..Len(containers) |->
        IF containers[n].container_type # "Group" THEN containers[n]
        ELSE [containers[n] EXCEPT
                !.group = IF containers[n].group = "GameRunning" THEN "Simple"
                          ELSE containers[n].group,
                !.led_containers = AsSimple(containers[n].led_containers)]]

\* Node k is a GameStarted group
GameStartedGroup(nodes, k) ==
    IsGroup(nodes[k].node) /\ nodes[k].node.condition.tag = "GameStarted"

\* C21: a GameStarted group cannot be told from an AlwaysOn group: built
\* over the same children and driven by the same moments at the same times,
\* both forward update() to every child on every tick and leds() of both is
\* the same after every step.
C21_GameStartedIsAlwaysOn ==
    (\E k \in 1..Len(Was) : GameStartedGroup(Was, k)) =>
        /\ op = "new" => AsAlwaysOn(effect) = EffectGroup_root(AsSimple(profile))
        /\ op = "update" =>
              /\ AsAlwaysOn(effect)
                     = LedEffect_update(AsAlwaysOn(prev), sim_state, clock, 1)
              /\ \A k \in 1..Len(Was) :
                    (GameStartedGroup(Was, k) /\ Updated(k, "Group")) => Forwarded(k)
        /\ op = "disable" => AsAlwaysOn(effect) = LedEffect_disable(AsAlwaysOn(prev))
        /\ op = "sleep" => effect = prev
        /\ LedEffect_leds(effect) = LedEffect_leds(AsAlwaysOn(effect))

\* a GameStarted group forwards an update that changes a child and lights
\* LEDs
C21_Witness ==
    \E k \in 1..Len(Was) :
        /\ GameStartedGroup(Was, k)
        /\ Updated(k, "Group")
        /\ SomeChildChanged(k)
        /\ SomeNodeBlinks(Is)
        /\ ~AllOff(LedEffect_leds(Is[k].node))

----------------------------------------------------------------------------
(* The order of leds() *)

\* The LedGroups of the leaves among the first n nodes, in the order of the
\* nodes (a group before its children, the children in their order)
RECURSIVE LeafLeds(_, _)
LeafLeds(nodes, n) ==
    IF n = 0 THEN <<>>
    ELSE LeafLeds(nodes, n - 1)
            \o (IF IsGroup(nodes[n].node) THEN <<>> ELSE LedEffect_leds(nodes[n].node))

\* The containers of a profile that become leaf effects, in the order they
\* are declared, those of a group in the place of the group
RECURSIVE DeclaredLeaves(_)
DeclaredLeaves(containers) ==
    IF containers = <<>> THEN <<>>
    ELSE LET container == Head(containers)
         IN  ( IF Skipped(container) \/ container.container_type = "RpmSegments"
               THEN <<>>
               ELSE IF container.container_type = "Group"
               THEN DeclaredLeaves(container.led_containers)
               ELSE <<container>> )
             \o DeclaredLeaves(Tail(containers))

\* The leaf effects of the tree, in the order of the nodes
Leaves(nodes) == SelectSeq(nodes, LAMBDA x : ~IsGroup(x.node))

\* C22: leds() of a group yields the LedGroups of its children one after the
\* other in the order the children are declared, those of a group inside it
\* in the place of that group; the order does not depend on the LEDs that
\* are lit.
C22_LedsFollowDeclarationOrder ==
    /\ \A k \in 1..Len(Is) :
          IsGroup(Is[k].node) =>
              LedEffect_leds(Is[k].node)
                  = LeafLeds(Walk(Is[k].node, TRUE), Len(Walk(Is[k].node, TRUE)))
    /\ Len(Leaves(Is)) = Len(DeclaredLeaves(profile))
    /\ Len(LedEffect_leds(effect)) = Len(DeclaredLeaves(profile))
    /\ \A n \in 1..Len(DeclaredLeaves(profile)) :
          /\ Leaves(Is)[n].node.container = DeclaredLeaves(profile)[n]
          /\ <<LedEffect_leds(effect)[n]>> = LedEffect_leds(Leaves(Is)[n].node)
    /\ Placement(effect) = Placement(prev)

\* a group with a group inside it, part of its LEDs lit and part not
C22_Witness ==
    /\ HoldsInnerGroup(Is)
    /\ Len(LedEffect_leds(effect)) = 4
    /\ \E a, b \in 1..4 :
          /\ a < b
          /\ AllOn(<<LedEffect_leds(effect)[a]>>)
          /\ AllOff(<<LedEffect_leds(effect)[b]>>)

----------------------------------------------------------------------------
(* The loop that drives the device *)

\* C23: in the driving loop update() is called on the root exactly once for
\* every moment that is received, and then every LedGroup of leds() is
\* forwarded to the device, in the order of leds(), before the next moment
\* is read: there are no two updates without the output of the first having
\* been applied in between.
C23_OneUpdateThenAllLedsPerMoment ==
    [][ /\ op' = "next_sim_state" =>
              \/ op = "new"
              \/ op \in {"update", "apply"} /\ applied = LedEffect_leds(effect)
        /\ op = "next_sim_state" =>
              /\ op' = "update"
              /\ sim_state' = sim_state
              /\ effect' = LedEffect_update(effect, sim_state, clock', 1)
        /\ (op' = "update" \/ effect' # effect) => op = "next_sim_state"
        /\ op' = "update" => applied' = <<>>
        /\ op' = "apply" =>
              /\ effect' = effect
              /\ Len(applied') = Len(applied) + 1
              /\ applied' = SubSeq(LedEffect_leds(effect), 1, Len(applied')) ]_vars

\* the next moment is read after the LedGroups of a lit tree, more than
\* one, have all been forwarded
C23_Witness ==
    /\ op = "next_sim_state"
    /\ Len(applied) >= 2
    /\ applied = LedEffect_leds(effect)
    /\ ~AllOff(applied)

----------------------------------------------------------------------------
(* RPM gradient effects *)

\* The moment has the RPM and the maximum RPM
HasRpm(m) ==
    m.vehicle_engine_rotation_speed.some /\ m.vehicle_max_engine_rotation_speed.some

\* The post-reversal index of the LED at place i of a gradient of n LEDs
LedNumber(c, n, i) == IF c.right_to_left THEN n - i ELSE i - 1

\* fraction * n >= j + 1 for the fraction of the range of the gradient that
\* the RPM of the moment has covered: the LED with index j is within
\* floor(fraction * n)
ReachesLed(c, n, m, j) ==
    LET rpm == m.vehicle_engine_rotation_speed.value
        max_rpm == m.vehicle_max_engine_rotation_speed.value
    IN  IF c.use_percent
        THEN (rpm * 100 - c.percent_min * max_rpm) * n
                 >= (j + 1) * max_rpm * (c.percent_max - c.percent_min)
        ELSE (rpm - c.rpm_min) * n >= (j + 1) * (c.rpm_max - c.rpm_min)

\* The number of LEDs of the group that are on
OnCount(group) == Cardinality({i \in 1..Len(group.leds) : group.leds[i].tag = "On"})

\* Node k is an RPM gradient that the last operation has updated with the
\* RPM and the maximum RPM present
GradientUpdated(k) == Updated(k, "RpmGradient") /\ HasRpm(sim_state)

ReachedLeds(c, n, m) == Cardinality({j \in 0..(n - 1) : ReachesLed(c, n, m, j)})

\* Every LED of the group that is on has the given colour
LitIn(group, color) ==
    \A i \in 1..Len(group.leds) :
        group.leds[i].tag = "On" => group.leds[i] = On(color)

\* C25: with gradient_on_all set, after update() the LEDs that are
\* on share the gradient colour of the last active LED, the colour that the
\* enabled LED with the highest index shows with gradient_on_all off.
C25_LitLedsShareColourOfLastActiveLed ==
    \A k \in 1..Len(Is) :
        LET e == Is[k].node
            c == e.container
            n == Len(e.state.leds)
        IN  ( /\ GradientUpdated(k)
              /\ c.gradient_on_all
              /\ ReachedLeds(c, n, sim_state) >= 1 )
            => LitIn(e.state, Gradient_at(c, ReachedLeds(c, n, sim_state) - 1))

\* C26: with gradient_on_all and fill_all_leds both set and while the effect
\* does not blink, every LED is On after every update() that has the RPM and
\* the maximum RPM, also for an RPM below the minimum of the gradient: the
\* RPM decides the colour alone, which all LEDs share.
C26_FillAllLedsLightsEveryLed ==
    \A k \in 1..Len(Is) :
        LET e == Is[k].node
            c == e.container
            n == Len(e.state.leds)
        IN  ( /\ GradientUpdated(k)
              /\ c.gradient_on_all /\ c.fill_all_leds
              /\ e.blink_state.tag = "NotBlinking" )
            => /\ OnCount(e.state) = n
               /\ LitIn(e.state, Gradient_at(c, ReachedLeds(c, n, sim_state)))

\* all five LEDs stay on, in another colour than before, at an RPM below the
\* minimum of the gradient
C26_Witness ==
    \E k \in 1..Len(Is) :
        /\ GradientUpdated(k)
        /\ Is[k].node.container.gradient_on_all
        /\ Is[k].node.container.fill_all_leds
        /\ Is[k].node.blink_state.tag = "NotBlinking"
        /\ ReachedLeds(Is[k].node.container, 5, sim_state) = 0
        /\ OnCount(Is[k].node.state) = 5
        /\ OnCount(Was[k].node.state) = 5
        /\ Was[k].node.state # Is[k].node.state

\* C27: the blink phase overrides the enablement that the RPM gives, for all
\* LEDs alike: after update() every LED is Off in LedsTurnedOff and every LED
\* is On in LedsTurnedOn, those with an index of leds_to_turn_on or more
\* included, while NotBlinking leaves the enablement of each LED as computed.
C27_BlinkPhaseOverridesEnablement ==
    \A k \in 1..Len(Is) :
        LET e == Is[k].node
            c == e.container
            n == Len(e.state.leds)
        IN  GradientUpdated(k)
            => /\ e.blink_state.tag = "LedsTurnedOff" => OnCount(e.state) = 0
               /\ e.blink_state.tag = "LedsTurnedOn" => OnCount(e.state) = n
               /\ e.blink_state.tag = "NotBlinking"
                      => \A i \in 1..n :
                            e.state.leds[i].tag = "On"
                                <=> \/ c.gradient_on_all /\ c.fill_all_leds
                                    \/ ReachesLed(c, n, sim_state, LedNumber(c, n, i))

\* the on phase lights all five LEDs of a gradient whose RPM reaches three,
\* after the off phase had turned them all off
C27_Witness ==
    \E k \in 1..Len(Is) :
        /\ GradientUpdated(k)
        /\ Is[k].node.blink_state.tag = "LedsTurnedOn"
        /\ Was[k].node.blink_state.tag = "LedsTurnedOff"
        /\ ReachedLeds(Is[k].node.container, 5, sim_state) = 3
        /\ OnCount(Is[k].node.state) = 5
        /\ OnCount(Was[k].node.state) = 0

\* The gradient as it is before the update, read from the left
LeftToRight(e) == [e EXCEPT !.container.right_to_left = FALSE]

\* C28: the output of a gradient with right_to_left is the mirror image of
\* the output of the same gradient read from the left, for the same
\* telemetry: the k-th LED to light is the k-th from the right and has the
\* gradient colour of position k, the start of the gradient on the
\* rightmost LED.
C28_RightToLeftIsMirrorImage ==
    \A k \in 1..Len(Is) :
        LET e == Is[k].node
            c == e.container
            n == Len(e.state.leds)
            mirrored ==
                RpmGradientEffect_update(LeftToRight(Was[k].node), sim_state, clock[k])
        IN  (GradientUpdated(k) /\ c.right_to_left)
            => /\ \A i \in 1..n : e.state.leds[i] = mirrored.state.leds[n + 1 - i]
               /\ e.blink_state = mirrored.blink_state
               /\ (e.blink_state.tag = "NotBlinking" /\ ~c.gradient_on_all)
                      => \A j \in 1..n :
                            e.state.leds[n + 1 - j] =
                                IF ReachesLed(c, n, sim_state, j - 1)
                                THEN On(Gradient_at(c, j - 1)) ELSE Off

\* two LEDs are lit from the right, the rightmost at the start of the gradient
C28_Witness ==
    \E k \in 1..Len(Is) :
        /\ GradientUpdated(k)
        /\ Is[k].node.container.right_to_left
        /\ ~Is[k].node.container.gradient_on_all
        /\ Is[k].node.blink_state.tag = "NotBlinking"
        /\ Is[k].node.state.leds =
              <<Off, Off, Off, On(Gradient_at(Is[k].node.container, 1)),
                On(Gradient_at(Is[k].node.container, 0))>>

----------------------------------------------------------------------------
(* RPM segments *)

\* The value of the moment, in the mode of the start value of the segment,
\* is below the start value
BelowStart(segment, m) ==
    LET rpm == m.vehicle_engine_rotation_speed.value
        max_rpm == m.vehicle_max_engine_rotation_speed
        sv == segment.start_value
    IN  CASE sv.tag = "Rpm" -> rpm < sv.value
          [] sv.tag = "RpmPercentage" ->
                (IF max_rpm.some /\ max_rpm.value > 0
                 THEN rpm * 100 < sv.value * max_rpm.value
                 ELSE 0 < sv.value)
          [] sv.tag = "RedlinePercentage" -> rpm * 100 < sv.value * max_rpm.value

\* The mode of the start value has a value in the moment
HasValue(segment, m) ==
    /\ m.vehicle_engine_rotation_speed.some
    /\ segment.start_value.tag = "RedlinePercentage"
          => m.vehicle_max_engine_rotation_speed.some

\* The phase of the redline blink of a segment ("NotBlinking" without blink)
BlinkPhase(e) ==
    IF e.blink_configuration.tag = "Enabled"
    THEN e.blink_configuration.state.tag ELSE "NotBlinking"

\* C29: after update() with the RPM present a segment of an RPM segments
\* effect is Off if the value of the moment is below its start value, in the
\* mode of the start value; at or above it the segment shows its normal
\* colour while the redline blink is not active, and while it is active the
\* blink colour in the on phase, when the segment has one and the normal
\* colour when not, and Off in the off phase.
C29_SegmentShowsStartValueAndBlinkPhase ==
    \A k \in 2..Len(Is) :
        LET e == Is[k].node
            segment == profile[1].segments[k - 1]
            shown == LedEffect_leds(e)
        IN  (Updated(k, "Segment") /\ HasValue(segment, sim_state))
            => /\ Len(shown) = 1 /\ Len(shown[1].leds) = segment.led_count
               /\ BelowStart(segment, sim_state) => AllOff(shown)
               /\ ~BelowStart(segment, sim_state) =>
                     CASE BlinkPhase(e) = "NotBlinking" ->
                             AllOnIn(shown, segment.normal_color)
                       [] BlinkPhase(e) = "LedsTurnedOn" ->
                             AllOnIn(shown,
                                     IF segment.blinking_color.some
                                     THEN segment.blinking_color.value
                                     ELSE segment.normal_color)
                       [] BlinkPhase(e) = "LedsTurnedOff" -> AllOff(shown)

\* the on phase of the redline blink: the first segment in its blink colour,
\* the second, without one, in its normal colour, the last, which starts
\* above the redline, off
C29_Witness ==
    /\ profile = <<MixedSegments(TRUE)>>
    /\ Len(Is) = 5
    /\ \A k \in 2..5 : Updated(k, "Segment") /\ BlinkPhase(Is[k].node) = "LedsTurnedOn"
    /\ LedEffect_leds(effect) =
          <<LedGroup_with_color(Color("Blue"), 1, 2),
            LedGroup_with_color(Color("Red"), 3, 1),
            LedGroup_with_color(Color("White"), 4, 1),
            LedGroup_new(5, 1)>>

----------------------------------------------------------------------------
(* Loading a profile *)

\* The pieces of the string behind its last dot
FinalPart(s) ==
    LET dots == {i \in 1..Len(s) : s[i] = "."}
    IN  IF dots = {} THEN s
        ELSE SubSeq(s, (CHOOSE i \in dots : \A j \in dots : j <= i) + 1, Len(s))

\* The typed containers: the container type, the struct of the content, the
\* variant of LedContainer and the kind of group
TypedContainers ==
    {<<"RPMContainer", "RpmContainer", "Rpm", "">>,
     <<"RPMSegmentsContainer", "RpmSegmentsContainer", "RpmSegments", "">>,
     <<"RedlineReachedContainer", "RedlineReachedContainer", "RedlineReached", "">>,
     <<"SpeedLimiterAnimationContainer", "SpeedLimiterAnimationContainer",
       "SpeedLimiterAnimation", "">>,
     <<"YellowFlagContainer", "FlagContainer", "YellowFlag", "">>,
     <<"BlueFlagContainer", "FlagContainer", "BlueFlag", "">>,
     <<"WhiteFlagContainer", "FlagContainer", "WhiteFlag", "">>,
     <<"GroupContainer", "SimpleGroupContainer", "Group", "Simple">>,
     <<"GameRunningGroupContainer", "SimpleGroupContainer", "Group", "GameRunning">>,
     <<"GameCarStatedGroupContainer", "TimeLimitedGroupContainer", "Group", "CarStarted">>,
     <<"CustomConditionalGroupContainer", "ConditionalGroupContainer", "Group",
       "Conditional">>}

\* The typed container that the final part of the container type names
TypedAs(json) == {t \in TypedContainers : FinalPart(json.ContainerType) = <<t[1]>>}

\* The start position of the object: 1 when it has none
StartPositionOf(json) ==
    IF json.StartPosition.some THEN json.StartPosition.value ELSE 1

\* The object has a namespace in front of its container type
Prefixed(json) == \E i \in 1..Len(json.ContainerType) : json.ContainerType[i] = "."

\* C30: the container that an object of led_containers is deserialized as
\* depends on the part of its container type behind the last dot alone: a
\* known final part gives the typed container of that type with and without
\* a namespace in front of it, and a final part that is not known gives an
\* Unknown container that keeps the start position, and the load goes on.
C30_DispatchOnFinalPartOfContainerType ==
    /\ \A i \in 1..Len(document) :
          LET json == document[i]
          IN  /\ \A t \in ContainerTypes :
                    FinalPart(t) = FinalPart(json.ContainerType)
                        => LedContainer_deserialize([json EXCEPT !.ContainerType = t])
                               = LedContainer_deserialize(json)
              /\ ( /\ TypedAs(json) = {}
                    /\ json.StartPosition # Some(0)
                    /\ i = Len(profile) + 1 )
                 => op # "failed"
    /\ \A i \in 1..Len(profile) :
          LET json == document[i]
              container == profile[i]
          IN  /\ container.start_position = StartPositionOf(json)
              /\ TypedAs(json) = {} => container = UnknownContainer(StartPositionOf(json))
              /\ \A t \in TypedAs(json) :
                    /\ json.fields = t[2]
                    /\ container.container_type = t[3]
                    /\ t[3] = "Group" => container.group = t[4]

\* a profile is loaded whose second container has a container type behind a
\* namespace that ends in a part that is not known, and has become an
\* Unknown container at position 3
C30_Witness ==
    /\ op = "new"
    /\ Len(profile) = 2
    /\ Prefixed(document[2])
    /\ document[2].ContainerType = <<"SimHub", ".", "Other">>
    /\ profile[2] = UnknownContainer(3)
    /\ effect = EffectGroup_root(profile)

----------------------------------------------------------------------------
(* The redline *)

\* The RPM and the maximum RPM are there and the RPM is more than 98 and
\* less than 102 percent of the maximum RPM
WithinMargin(m) ==
    /\ HasRpm(m)
    /\ 98 * m.vehicle_max_engine_rotation_speed.value
          < 100 * m.vehicle_engine_rotation_speed.value
    /\ 100 * m.vehicle_engine_rotation_speed.value
          < 102 * m.vehicle_max_engine_rotation_speed.value

----------------------------------------------------------------------------
(* The shape of the output *)

\* The effect tree as it was constructed for the profile
Constructed == (CHOOSE c \in Configurations : c.profile = profile).effect

\* C32: update() and disable() never change the shape of the output: after
\* any sequence of operations leds() yields as many LedGroups as at
\* construction, in the same order, each with the start position and the
\* length it had then; the values of the LEDs alone change.
C32_ShapeOfOutputIsFixed ==
    /\ Placement(effect) = Placement(Constructed)
    /\ Placement(effect) = Placement(prev)

\* an update() or a disable() has changed the value of a LED
C32_Witness ==
    /\ op \in {"update", "disable"}
    /\ LedEffect_leds(effect) # LedEffect_leds(prev)
    /\ Len(LedEffect_leds(effect)) >= 2

----------------------------------------------------------------------------
(* What an effect depends on *)

\* The flag of the condition of a flag effect, as the flags report it
OwnFlag(flags, condition) ==
    CASE condition = "White" -> flags.white
      [] condition = "Yellow" -> flags.yellow
      [] condition = "Blue" -> flags.blue

\* C33: a flag effect of one colour is unaffected by the other two flags:
\* from the same state and at the same time, update() with any moment that
\* reports the same value for the flag of the effect leaves the same blink
\* state and the same leds(), whatever the other flags are, so two runs that
\* agree on that flag agree at every step; a flag that is not the one of the
\* effect never lights its LEDs.
C33_FlagEffectIgnoresOtherFlags ==
    \A k \in 1..Len(Is) :
        LET p == Was[k].node
            e == Is[k].node
        IN  ( /\ Updated(k, "Blink")
              /\ e.condition # "RedLine"
              /\ sim_state.flags.some )
            => /\ \A f \in AllFlags :
                     OwnFlag(f, e.condition) = OwnFlag(sim_state.flags.value, e.condition)
                         => LET other == BlinkEffect_update(p,
                                             [sim_state EXCEPT !.flags = Some(f)],
                                             clock[k])
                            IN  /\ other = e
                                /\ BlinkEffect_leds(other) = LedEffect_leds(e)
               /\ ~OwnFlag(sim_state.flags.value, e.condition)
                     => AllOff(LedEffect_leds(e))

\* the white flag is out and the blue one is not: the white effect is lit
\* and the blue effect next to it is off
C33_Witness ==
    \E j, k \in 1..Len(Is) :
        /\ Updated(j, "Blink") /\ Updated(k, "Blink")
        /\ Is[j].node.condition = "White" /\ Is[k].node.condition = "Blue"
        /\ sim_state.flags.some
        /\ sim_state.flags.value.white /\ ~sim_state.flags.value.blue
        /\ AllOn(LedEffect_leds(Is[j].node))
        /\ AllOff(LedEffect_leds(Is[k].node))

----------------------------------------------------------------------------
(* The CarStarted group outside its window *)

\* Node k is a CarStarted group whose condition is in the state tag
CarStartedIs(k, tag) ==
    /\ Is[k].node.kind = "Group"
    /\ Is[k].node.condition.tag = "CarStarted"
    /\ Is[k].node.condition.state.tag = tag

\* C34: in every reachable state, a CarStarted group whose condition is
\* Waiting or Expired yields only LEDs that are Off: its children are lit
\* only while the group is Triggered.
C34_DarkUnlessTriggered ==
    \A k \in 1..Len(Is) :
        (CarStartedIs(k, "Waiting") \/ CarStartedIs(k, "Expired"))
            => AllOff(LedEffect_leds(Is[k].node))

\* a group that was lit has gone through Expired back to Waiting, and the
\* flag that lit it is still out
C34_Witness ==
    \E k \in 1..Len(Is) :
        /\ CarStartedWas(k, "Expired")
        /\ CarStartedIs(k, "Waiting")
        /\ FlagIs(sim_state, "Yellow", TRUE)
        /\ Len(LedEffect_leds(Is[k].node)) > 0
        /\ AllOff(LedEffect_leds(Is[k].node))

----------------------------------------------------------------------------
(* The blink phases of the segments of one effect *)

\* C35: after every update() of an RPM segments effect with blinking
\* enabled all of its segments are in the same blink phase, although each
\* segment keeps its own blink state and reads the clock on its own within
\* the update.
C35_SegmentsShareBlinkPhase ==
    ( /\ op = "update"
      /\ effect.kind = "RpmSegments"
      /\ profile[1].blink_enabled )
    => \A j, k \in 2..Len(Is) :
          BlinkPhase(Is[j].node) = BlinkPhase(Is[k].node)

----------------------------------------------------------------------------
(* Blinking and expiry under a loop that keeps polling *)

\* Node k is a blink effect that blinks and that every update() of the tree
\* reaches
DirectBlinker(k) ==
    /\ Is[k].direct
    /\ Is[k].node.kind = "Blink"
    /\ Blinks(Is[k].node)

HasDirectBlinker == \E k \in 1..Len(Is) : DirectBlinker(k)

\* The moment of the last update() reports the flag of every such effect as
\* true
FlagRaised ==
    op = "update" =>
        \A k \in 1..Len(Is) :
            DirectBlinker(k) => FlagIs(sim_state, Is[k].node.condition, TRUE)

BlinkersLit ==
    \E k \in 1..Len(Is) : DirectBlinker(k) /\ AllOn(LedEffect_leds(Is[k].node))

BlinkersDark ==
    \E k \in 1..Len(Is) : DirectBlinker(k) /\ AllOff(LedEffect_leds(Is[k].node))

\* C36: a blink effect with blinking enabled whose flag is true in every
\* moment, updated again and again while the clock advances without bound,
\* shows its LEDs On infinitely often and Off infinitely often: no phase
\* lasts for ever, whatever the delays, a delay of zero included.
C36_BlinkingNeverGetsStuck ==
    (HasDirectBlinker /\ []FlagRaised) => ([]<>BlinkersLit /\ []<>BlinkersDark)

\* the effect with a delay of zero leaves its on phase in an update() with
\* the flag raised, after the clock has been rewound
C36_Witness ==
    /\ profile = <<ZeroDelayBlink>>
    /\ op = "update"
    /\ FlagRaised
    /\ now < MaxTime - 1
    /\ \E k \in 1..Len(Is) :
          /\ DirectBlinker(k)
          /\ AllOn(LedEffect_leds(Was[k].node))
          /\ AllOff(LedEffect_leds(Is[k].node))
          /\ BlinkStateOf(Is[k].node) = LedsTurnedOff(Horizon)

\* Some CarStarted group of the tree is in the state tag
SomeCarStartedIs(tag) == \E k \in 1..Len(Is) : CarStartedIs(k, tag)

\* A Triggered CarStarted group stays Triggered with the trigger time it has
\* (counted from the new epoch when the clock is rewound) or becomes Expired
TriggeredStepsToExpired ==
    \A k \in 1..Len(Is) :
        CarStartedIs(k, "Triggered") =>
            \/ Is'[k].node.condition.state = Expired
            \/ Is'[k].node.condition.state =
                   IF op' = "rewind"
                   THEN Triggered(Instant_rebase(
                            Is[k].node.condition.state.trigger_time,
                            MaxTime - Horizon))
                   ELSE Is[k].node.condition.state

\* C37: a CarStarted group that is Triggered becomes Expired eventually if
\* update() keeps being called while the clock advances, with the engine
\* running or not: until then it stays Triggered with the same trigger
\* time, an engine stop neither sends it back to Waiting nor cancels the
\* timer.
C37_TriggeredEventuallyExpires ==
    /\ SomeCarStartedIs("Triggered") ~> SomeCarStartedIs("Expired")
    /\ [][TriggeredStepsToExpired]_vars

\* a Triggered group expires in an update() whose moment reports the engine
\* as stopped
C37_Witness ==
    \E k \in 1..Len(Is) :
        /\ CarStartedWas(k, "Triggered")
        /\ ~is_engine_running(sim_state)
        /\ CarStartedIs(k, "Expired")

----------------------------------------------------------------------------
(* The two blink state machines *)

\* The active signal of the blink of an RPM gradient in the moment
GradientSignal(e, m) ==
    /\ redline_reached(m)
    /\ e.container.blink_enabled
    /\ (e.container.blink_on_last_gear \/ m.vehicle_gear # Some(LAST_GEAR))

\* The state the shared blink state machine, with the single delay of the
\* gradient, reaches from the blink state of the gradient
SharedNextState(e, m, t) ==
    BlinkConfiguration_update(
        Enabled(e.blink_state, Single(e.container.blink_delay)),
        GradientSignal(e, m), t).state

\* C38: the blink logic of the RPM gradient and the shared blink state
\* machine are equivalent: from the same phase, with the same active signal,
\* the same time of the update and the same single delay, both reach the
\* same phase, so both pass through the same sequence of phases.
C38_GradientBlinksLikeSharedMachine ==
    \A k \in 1..Len(Is) :
        (Updated(k, "RpmGradient") /\ HasRpm(sim_state))
            => Is[k].node.blink_state.tag
                   = SharedNextState(Was[k].node, sim_state, clock[k]).tag

----------------------------------------------------------------------------
(* What a redline effect depends on *)

\* The flag telemetry of a moment: unavailable, or any state of the flags
FlagTelemetry == {None} \cup {Some(f) : f \in AllFlags}

\* C39: the state of a redline blink effect after update() depends on the
\* RPM, the maximum RPM and the time alone: from the same state, moments
\* that differ only in their flag telemetry, available or not, leave the
\* same blink state and the same leds(); unavailable flag telemetry does not
\* stop a redline effect from reacting.
C39_RedlineIgnoresFlagTelemetry ==
    \A k \in 1..Len(Is) :
        (Updated(k, "Blink") /\ Was[k].node.condition = "RedLine")
            => \A flags \in FlagTelemetry :
                  LET other == BlinkEffect_update(Was[k].node,
                                   [sim_state EXCEPT !.flags = flags], clock[k])
                  IN  /\ other = Is[k].node
                      /\ BlinkEffect_leds(other) = LedEffect_leds(Is[k].node)

----------------------------------------------------------------------------
(* The LEDs of the device at the end of a tick *)

\* Every LedGroup of leds() has been applied since the last update()
TickApplied ==
    /\ op = "apply"
    /\ ~LedsIterator_next(LedEffect_leds(effect), Len(applied)).some

\* The LedGroup covers LED i of the device
Covers(g, i) == g.start_position <= i /\ i < g.start_position + Len(g.leds)

\* The places in leds() of the LedGroups that cover LED i of the device
Covering(i) ==
    {n \in 1..Len(LedEffect_leds(effect)) : Covers(LedEffect_leds(effect)[n], i)}

\* What the LedGroup says about LED i of the device
ValueFor(g, i) == g.leds[i - g.start_position + 1]

\* C40: once the LedGroups of a tick are applied, every LED of the device
\* that some LedGroup covers has the value of the last LedGroup in leds()
\* order that covers it, the colour of an On and black for an Off; an
\* effect that is Off blanks an earlier, overlapping one that is On.
C40_LastLedGroupWins ==
    TickApplied =>
        \A i \in 1..LED_COUNT :
            Covering(i) # {} =>
                LET last == CHOOSE n \in Covering(i) : \A m \in Covering(i) : m <= n
                    led == ValueFor(LedEffect_leds(effect)[last], i)
                IN  buffer[i] = IF led.tag = "On" THEN Color_to_rgba8(led.color)
                                ELSE <<0, 0, 0>>

\* a LED of the device that an effect lights and a later effect, which is
\* off, covers too: it is black at the end of the tick
C40_Witness ==
    /\ TickApplied
    /\ \E i \in 1..LED_COUNT : \E m, n \in Covering(i) :
          /\ m < n
          /\ ValueFor(LedEffect_leds(effect)[m], i).tag = "On"
          /\ ValueFor(LedEffect_leds(effect)[n], i) = Off
          /\ buffer[i] = <<0, 0, 0>>

====
